---- MODULE Spec2Model ----
(***************************************************************************)
(* py_omen: the OMEN rule-set loader (omen_cracker/input_file_io.py), the  *)
(* enumerator MarkovCracker (omen_cracker/markov_cracker.py) and the guess *)
(* loop of enumNG.py.                                                      *)
(*                                                                         *)
(* Conventions.  A string is a sequence of one-symbol strings.  Python's   *)
(* None is the empty tuple; an optional value x that the code compares     *)
(* with None (a returned guess, the level argument, cur_guess, the parse   *)
(* tree) is <<x>>.  Python list indexes are 0-based and kept 0-based.      *)
(***************************************************************************)
EXTENDS Integers, Sequences, FiniteSets, TLC

(***************************************************************************)
(* Bounds of the model.                                                    *)
(***************************************************************************)
MaxLevel == 2
MaxLength == 3
\* no guess of a model within the bounds has a total level above
\* MaxLevel * (MaxLength + 1); the target level is followed one level further
MaxReplay == 4
MaxGuesses == 5
MaxTarget == MaxLevel * (MaxLength + 1) + 1

None == << >>
Some(x) == << x >>

Min(a, b) == IF a <= b THEN a ELSE b

(***************************************************************************)
(* Rule files on disk, as createNG leaves them: one line per key, keys in  *)
(* the trainer's iteration order.                                          *)
(***************************************************************************)
alphabet == << "a", "b" >>

RECURSIVE Keys(_)
Keys(m) ==
    IF m = 0 THEN << << >> >>
    ELSE LET shorter == Keys(m - 1)
             idx(i) == << ((i - 1) \div Len(alphabet)) + 1, ((i - 1) % Len(alphabet)) + 1 >>
         IN  [ i \in 1..(Len(shorter) * Len(alphabet)) |->
                 shorter[idx(i)[1]] \o << alphabet[idx(i)[2]] >> ]

RECURSIVE CountB(_)
CountB(s) == IF s = << >> THEN 0 ELSE (IF s[1] = "b" THEN 1 ELSE 0) + CountB(Tail(s))

IPShapes == { "countb", "firsta", "one", "top" }
LNShapes == { "ramp", "one", "alt" }
CPShapes == { "sym", "diag", "sparse" }
NGrams == { 2, 3 }

ip_level(shape, key) ==
    CASE shape = "zero"   -> 0
      [] shape = "countb" -> Min(CountB(key), MaxLevel)
      [] shape = "firsta" -> IF key[1] = "a" THEN 1 ELSE 0
      [] shape = "one"    -> 1
      [] shape = "top"    -> MaxLevel

ln_level(shape, length) ==
    CASE shape = "zero" -> 0
      [] shape = "ramp" -> Min(length - 1, MaxLevel)
      [] shape = "one"  -> 1
      [] shape = "alt"  -> length % 2
      [] shape = "top"  -> MaxLevel

cp_level(shape, ctx, sym) ==
    CASE shape = "zero"   -> 0
      [] shape = "sym"    -> IF sym = "b" THEN 1 ELSE 0
      [] shape = "diag"   -> IF ctx[Len(ctx)] = sym THEN 0 ELSE MaxLevel
      [] shape = "sparse" -> IF sym = "b" THEN 1 ELSE 0

\* "sparse" keeps only the transitions out of the all-"a" context
cp_present(shape, ctx, sym) ==
    shape = "sparse" => CountB(ctx) = 0

IPFile(n, shape) ==
    [ i \in 1..Len(Keys(n - 1)) |->
        [ level |-> ip_level(shape, Keys(n - 1)[i]), key |-> Keys(n - 1)[i] ] ]

EPFile(n, shape) ==
    [ i \in 1..Len(Keys(n - 1)) |->
        [ level |-> ip_level(shape, Keys(n - 1)[i]), key |-> Keys(n - 1)[i] ] ]

CPFile(n, shape) ==
    SelectSeq([ i \in 1..Len(Keys(n)) |->
                  [ level |-> cp_level(shape, SubSeq(Keys(n)[i], 1, n - 1), Keys(n)[i][n]),
                    key   |-> Keys(n)[i] ] ],
              LAMBDA line : cp_present(shape, SubSeq(line.key, 1, n - 1), line.key[n]))

LNFile(shape) == [ length \in 1..MaxLength |-> ln_level(shape, length) ]

RuleFiles ==
    { [ ngram |-> n, max_level |-> MaxLevel, uuid |-> "u1", version |-> "0.1",
        IP |-> IPFile(n, s[1]), EP |-> EPFile(n, s[1]),
        CP |-> CPFile(n, s[3]), LN |-> LNFile(s[2]) ]
      : n \in NGrams, s \in IPShapes \X LNShapes \X CPShapes }

(***************************************************************************)
(* input_file_io.py: the loader.                                           *)
(***************************************************************************)
LevelsOf(max_level) == 0..max_level

\* _load_ngrams(name = "ip"): one bucket per level 0..max_level, keys appended
\* in file order
_load_ngrams_ip(file, max_level) ==
    [ level \in LevelsOf(max_level) |->
        LET lines == SelectSeq(file, LAMBDA line : line.level = level)
        IN  [ i \in 1..Len(lines) |-> lines[i].key ] ]

\* _load_ngrams(name = "ep"): key -> level, a later line of the same key wins
_load_ngrams_ep(file) ==
    [ key \in { file[i].key : i \in 1..Len(file) } |->
        LET last == CHOOSE i \in 1..Len(file) :
                        /\ file[i].key = key
                        /\ \A j \in (i + 1)..Len(file) : file[j].key # key
        IN  file[last].level ]

\* _load_ngrams(name = "cp"): context -> level -> next symbols in file order;
\* only the contexts and the levels that occur in the file are keys
_load_ngrams_cp(file) ==
    LET ctx_of(line) == SubSeq(line.key, 1, Len(line.key) - 1)
        contexts == { ctx_of(file[i]) : i \in 1..Len(file) }
        levels(c) == { file[i].level : i \in { j \in 1..Len(file) : ctx_of(file[j]) = c } }
    IN  [ c \in contexts |->
            [ level \in levels(c) |->
                LET lines == SelectSeq(file, LAMBDA line : ctx_of(line) = c /\ line.level = level)
                IN  [ i \in 1..Len(lines) |-> lines[i].key[Len(lines[i].key)] ] ] ]

\* _load_length: line i is the level of length i; a length is stored, as its
\* count of CP applications, only when cur_length >= min_size
_load_length(file, max_level, min_size) ==
    [ level \in LevelsOf(max_level) |->
        LET lengths == SelectSeq([ i \in 1..Len(file) |-> i ],
                                 LAMBDA cur_length : file[cur_length] = level
                                                     /\ cur_length >= min_size)
        IN  [ i \in 1..Len(lengths) |-> lengths[i] - (min_size - 1) ] ]

\* the sanity check on every level read from a file
LevelsValid(files) ==
    /\ \A i \in 1..Len(files.IP) : files.IP[i].level \in LevelsOf(files.max_level)
    /\ \A i \in 1..Len(files.EP) : files.EP[i].level \in LevelsOf(files.max_level)
    /\ \A i \in 1..Len(files.CP) : files.CP[i].level \in LevelsOf(files.max_level)
    /\ \A i \in 1..Len(files.LN) : files.LN[i] \in LevelsOf(files.max_level)

\* load_rules: the grammar dictionary (the call with min_size = grammar['ngram']
\* is the one load_rules makes)
load_rules(files) ==
    [ ngram     |-> files.ngram,
      max_level |-> files.max_level,
      uuid      |-> files.uuid,
      version   |-> files.version,
      alphabet  |-> alphabet,
      ip        |-> _load_ngrams_ip(files.IP, files.max_level),
      ep        |-> _load_ngrams_ep(files.EP),
      cp        |-> _load_ngrams_cp(files.CP),
      ln        |-> _load_length(files.LN, files.max_level, files.ngram) ]

(***************************************************************************)
(* guess_structure.py: the inner walker.  Its state is the IP, the number  *)
(* of CP applications, the target CP-sum, the parse tree (one slot         *)
(* [level, index] per CP application, or None) and the first_guess flag.   *)
(***************************************************************************)
GuessStructure(grammar, ip, cp_length, target_level, optimizer) ==
    [ ip |-> ip, cp_length |-> cp_length, target_level |-> target_level,
      optimizer |-> optimizer, parse_tree |-> None, first_guess |-> TRUE ]

\* cp[context][level], empty when the context or the level is not a key
CPBucket(grammar, context, level) ==
    IF context \in DOMAIN grammar.cp
    THEN IF level \in DOMAIN grammar.cp[context] THEN grammar.cp[context][level] ELSE << >>
    ELSE << >>

\* the last n-1 symbols of the guess built so far
Context(grammar, str) == SubSeq(str, Len(str) - (grammar.ngram - 1) + 1, Len(str))

\* every parse tree of k slots that continues str and spends exactly S
RECURSIVE ParseTrees(_, _, _, _)
ParseTrees(grammar, str, k, S) ==
    IF k = 0 THEN (IF S = 0 THEN { << >> } ELSE { })
    ELSE UNION { UNION { { << [level |-> l, index |-> j] >> \o rest :
                             rest \in ParseTrees(grammar,
                                         str \o << CPBucket(grammar, Context(grammar, str), l)[j + 1] >>,
                                         k - 1, S - l) }
                         : j \in 0..(Len(CPBucket(grammar, Context(grammar, str), l)) - 1) }
                 : l \in 0..Min(S, grammar.max_level) }

\* the string a parse tree stands for
RECURSIVE FormatGuess(_, _, _)
FormatGuess(grammar, str, tree) ==
    IF tree = << >> THEN str
    ELSE FormatGuess(grammar,
             str \o << CPBucket(grammar, Context(grammar, str), tree[1].level)[tree[1].index + 1] >>,
             Tail(tree))

\* the walker's order: slot 0 is the most significant, a slot orders by (level, index)
RECURSIVE TreeBefore(_, _)
TreeBefore(t, u) ==
    /\ t # << >>
    /\ u # << >>
    /\ \/ t[1].level < u[1].level
       \/ t[1].level = u[1].level /\ t[1].index < u[1].index
       \/ t[1] = u[1] /\ TreeBefore(Tail(t), Tail(u))

FirstTree(trees) == CHOOSE t \in trees : \A u \in trees : u = t \/ TreeBefore(t, u)

\* the slip of starting over when called after the last guess
GS_next_guess_starts_over(grammar, gs) ==
    LET all   == ParseTrees(grammar, gs.ip, gs.cp_length, gs.target_level)
        later == IF gs.first_guess \/ gs.parse_tree = None THEN all
                 ELSE { t \in all : TreeBefore(gs.parse_tree[1], t) }
    IN  IF later = { }
        THEN [ gs    |-> [ gs EXCEPT !.parse_tree = None, !.first_guess = FALSE ],
               guess |-> None ]
        ELSE [ gs    |-> [ gs EXCEPT !.parse_tree = Some(FirstTree(later)), !.first_guess = FALSE ],
               guess |-> Some(FormatGuess(grammar, gs.ip, FirstTree(later))) ]

\* GuessStructure.next_guess: the walker after the call and the guess it returns
GS_next_guess(grammar, gs) ==
    LET all   == ParseTrees(grammar, gs.ip, gs.cp_length, gs.target_level)
        later == IF gs.first_guess THEN all
                 ELSE IF gs.parse_tree = None THEN { }
                 ELSE { t \in all : TreeBefore(gs.parse_tree[1], t) }
    IN  IF later = { }
        THEN [ gs    |-> [ gs EXCEPT !.parse_tree = None, !.first_guess = FALSE ],
               guess |-> None ]
        ELSE [ gs    |-> [ gs EXCEPT !.parse_tree = Some(FirstTree(later)), !.first_guess = FALSE ],
               guess |-> Some(FormatGuess(grammar, gs.ip, FirstTree(later))) ]

(***************************************************************************)
(* markov_cracker.py: MarkovCracker.  A cracker is a record of the         *)
(* object's fields; cur_len and cur_ip are None or <<level, index>>, so    *)
(* Python's cur_ip[0] is cur_ip[1] here and cur_ip[1] is cur_ip[2].        *)
(***************************************************************************)
\* _find_first_object: the levels range(0, max_level) looks at that hold an entry
FirstObjectLevels(grammar, lookup_table) ==
    { level \in 0..(grammar.max_level - 1) : Len(lookup_table[level]) # 0 }

\* _find_first_object: None stands for the raised exception
_find_first_object(grammar, lookup_table) ==
    IF FirstObjectLevels(grammar, lookup_table) = { } THEN None
    ELSE Some(CHOOSE level \in FirstObjectLevels(grammar, lookup_table) :
                 \A other \in FirstObjectLevels(grammar, lookup_table) : level <= other)

\* the slip of leaving the IP level out of the walker's target
NewGuessStructure_without_ip_level(grammar, c) ==
    GuessStructure(grammar,
                   grammar.ip[c.cur_ip[1]][c.cur_ip[2] + 1],
                   grammar.ln[c.cur_len[1]][c.cur_len[2] + 1],
                   c.target_level - c.cur_len[1],
                   c.optimizer)

\* the GuessStructure(...) call next_guess, _increase_len_for_target and
\* _increase_ip_for_target make from the current pointers
NewGuessStructure(grammar, c) ==
    GuessStructure(grammar,
                   grammar.ip[c.cur_ip[1]][c.cur_ip[2] + 1],
                   grammar.ln[c.cur_len[1]][c.cur_len[2] + 1],
                   c.target_level - c.cur_len[1] - c.cur_ip[1],
                   c.optimizer)

\* the while loop of _increase_len_for_target: the new pointer, or None when
\* the function returns False
RECURSIVE len_scan(_, _, _, _)
len_scan(grammar, c, level, index) ==
    IF ~ (level <= grammar.max_level) THEN None
    ELSE IF Len(grammar.ln[level]) > index THEN << level, index >>
    ELSE IF level + 1 > grammar.max_level THEN None
    ELSE IF level + 1 > c.target_level THEN None
    ELSE len_scan(grammar, c, level + 1, 0)

\* the slip of constructing the guess structure before the IP is reset
_increase_len_for_target_resets_ip_late(grammar, c) ==
    LET found == len_scan(grammar, c, c.cur_len[1], c.cur_len[2] + 1)
        moved == [ c EXCEPT !.cur_len = found ]
    IN  IF found = None THEN [ ok |-> FALSE, c |-> c ]
        ELSE [ ok |-> TRUE,
               c  |-> [ moved EXCEPT !.cur_guess = Some(NewGuessStructure(grammar, moved)),
                                     !.cur_ip = << c.start_ip, 0 >> ] ]

_increase_len_for_target(grammar, c) ==
    LET found == len_scan(grammar, c, c.cur_len[1], c.cur_len[2] + 1)
        moved == [ c EXCEPT !.cur_len = found,
                            !.cur_ip  = << c.start_ip, 0 >> ]
    IN  IF found = None THEN [ ok |-> FALSE, c |-> c ]
        ELSE [ ok |-> TRUE,
               c  |-> [ moved EXCEPT !.cur_guess = Some(NewGuessStructure(grammar, moved)) ] ]

\* the slip of stopping one level below the working target
RECURSIVE ip_scan_stops_below_target(_, _, _, _)
ip_scan_stops_below_target(grammar, working_target, level, index) ==
    IF ~ (level <= grammar.max_level) THEN None
    ELSE IF Len(grammar.ip[level]) > index THEN << level, index >>
    ELSE IF level + 1 > grammar.max_level THEN None
    ELSE IF level + 1 >= working_target THEN None
    ELSE ip_scan_stops_below_target(grammar, working_target, level + 1, 0)

\* the while loop of _increase_ip_for_target
RECURSIVE ip_scan(_, _, _, _)
ip_scan(grammar, working_target, level, index) ==
    IF ~ (level <= grammar.max_level) THEN None
    ELSE IF Len(grammar.ip[level]) > index THEN << level, index >>
    ELSE IF level + 1 > grammar.max_level THEN None
    ELSE IF level + 1 > working_target THEN None
    ELSE ip_scan(grammar, working_target, level + 1, 0)

\* the slip of storing working_target in self.target_level
_increase_ip_for_target_retargets(grammar, c, working_target) ==
    LET found == ip_scan(grammar, working_target, c.cur_ip[1], c.cur_ip[2] + 1)
        moved == [ c EXCEPT !.cur_ip = found, !.target_level = working_target ]
    IN  IF found = None THEN [ ok |-> FALSE, c |-> c ]
        ELSE [ ok |-> TRUE,
               c  |-> [ moved EXCEPT !.cur_guess = Some(NewGuessStructure(grammar, moved)) ] ]

\* the slip of saving the pointer one place after the entry that was found
_increase_ip_for_target_counts_from_one(grammar, c, working_target) ==
    LET found == ip_scan(grammar, working_target, c.cur_ip[1], c.cur_ip[2] + 1)
        moved == [ c EXCEPT !.cur_ip = found ]
    IN  IF found = None THEN [ ok |-> FALSE, c |-> c ]
        ELSE [ ok |-> TRUE,
               c  |-> [ moved EXCEPT !.cur_guess = Some(NewGuessStructure(grammar, moved)),
                                     !.cur_ip = << found[1], found[2] + 1 >> ] ]

_increase_ip_for_target(grammar, c, working_target) ==
    LET found == ip_scan(grammar, working_target, c.cur_ip[1], c.cur_ip[2] + 1)
        moved == [ c EXCEPT !.cur_ip = found ]
    IN  IF found = None THEN [ ok |-> FALSE, c |-> c ]
        ELSE [ ok |-> TRUE,
               c  |-> [ moved EXCEPT !.cur_guess = Some(NewGuessStructure(grammar, moved)) ] ]

\* the slip of moving the start levels to the target instead of the pointers
StartChain_moves_start(grammar, c, level) ==
    LET target == IF level = None THEN c.start_length + c.start_ip ELSE level[1]
        set    == [ c EXCEPT !.increase_target_level = (level = None),
                             !.target_level = target,
                             !.start_length = target,
                             !.cur_len = << c.start_length, 0 >>,
                             !.cur_ip  = << c.start_ip, 0 >> ]
    IN  IF level # None /\ c.start_length + c.start_ip > level[1]
        THEN [ bail |-> TRUE, c |-> c ]
        ELSE [ bail |-> FALSE,
               c    |-> [ set EXCEPT !.cur_guess = Some(NewGuessStructure(grammar, set)) ] ]

\* the slip of counting the lowest EP level into the first target level
StartChain_counts_ep(grammar, c, level) ==
    LET lowest == IF DOMAIN grammar.ep = { } THEN 0
                  ELSE CHOOSE l \in 0..grammar.max_level :
                           /\ \E key \in DOMAIN grammar.ep : grammar.ep[key] = l
                           /\ \A key \in DOMAIN grammar.ep : grammar.ep[key] >= l
        target == IF level = None THEN c.start_length + c.start_ip + lowest ELSE level[1]
        set    == [ c EXCEPT !.increase_target_level = (level = None),
                             !.target_level = target,
                             !.cur_len = << c.start_length, 0 >>,
                             !.cur_ip  = << c.start_ip, 0 >> ]
    IN  IF level # None /\ c.start_length + c.start_ip > level[1]
        THEN [ bail |-> TRUE, c |-> c ]
        ELSE [ bail |-> FALSE,
               c    |-> [ set EXCEPT !.cur_guess = Some(NewGuessStructure(grammar, set)) ] ]

\* the slip of starting a pass where the pass before it left the pointers
StartChain_keeps_place(grammar, c, level) ==
    LET target == IF level = None THEN c.start_length + c.start_ip ELSE level[1]
        set    == [ c EXCEPT !.increase_target_level = (level = None),
                             !.target_level = target,
                             !.cur_len = IF @ = None THEN << c.start_length, 0 >> ELSE @,
                             !.cur_ip  = IF @ = None THEN << c.start_ip, 0 >> ELSE @ ]
    IN  IF level # None /\ c.start_length + c.start_ip > level[1]
        THEN [ bail |-> TRUE, c |-> c ]
        ELSE [ bail |-> FALSE,
               c    |-> [ set EXCEPT !.cur_guess = Some(NewGuessStructure(grammar, set)) ] ]

\* next_guess, "Deal with starting off the Markov chain": taken when
\* cur_guess == None; bail is the quick return None of a level that is too low
StartChain(grammar, c, level) ==
    LET target == IF level = None THEN c.start_length + c.start_ip ELSE level[1]
        set    == [ c EXCEPT !.increase_target_level = (level = None),
                             !.target_level = target,
                             !.cur_len = << c.start_length, 0 >>,
                             !.cur_ip  = << c.start_ip, 0 >> ]
    IN  IF level # None /\ c.start_length + c.start_ip > level[1]
        THEN [ bail |-> TRUE, c |-> c ]
        ELSE [ bail |-> FALSE,
               c    |-> [ set EXCEPT !.cur_guess = Some(NewGuessStructure(grammar, set)) ] ]

\* next_guess, "guess = self.cur_guess.next_guess()": the walker is advanced in place
AskWalker(grammar, c) ==
    LET r == GS_next_guess(grammar, c.cur_guess[1])
    IN  [ c |-> [ c EXCEPT !.cur_guess = Some(r.gs) ], guess |-> r.guess ]

\* the slip of not adding 1 to the target level when a level is finished
AdvancePointers_same_level(grammar, c) ==
    LET by_ip  == _increase_ip_for_target(grammar, c, c.target_level - c.cur_len[1])
        by_len == _increase_len_for_target(grammar, c)
        raised == [ c EXCEPT !.cur_len = << c.start_length, 0 >>,
                             !.cur_ip  = << c.start_ip, 0 >> ]
    IN  IF by_ip.ok THEN [ done |-> FALSE, c |-> by_ip.c ]
        ELSE IF by_len.ok THEN [ done |-> FALSE, c |-> by_len.c ]
        ELSE IF c.increase_target_level = TRUE
             THEN [ done |-> FALSE,
                    c    |-> [ raised EXCEPT !.cur_guess = Some(NewGuessStructure(grammar, raised)) ] ]
             ELSE [ done |-> TRUE, c |-> [ c EXCEPT !.cur_guess = None ] ]

\* the slip of trying the next length before the next IP
AdvancePointers_length_first(grammar, c) ==
    LET by_ip  == _increase_ip_for_target(grammar, c, c.target_level - c.cur_len[1])
        by_len == _increase_len_for_target(grammar, c)
        raised == [ c EXCEPT !.target_level = c.target_level + 1,
                             !.cur_len = << c.start_length, 0 >>,
                             !.cur_ip  = << c.start_ip, 0 >> ]
    IN  IF by_len.ok THEN [ done |-> FALSE, c |-> by_len.c ]
        ELSE IF by_ip.ok THEN [ done |-> FALSE, c |-> by_ip.c ]
        ELSE IF c.increase_target_level = TRUE
             THEN [ done |-> FALSE,
                    c    |-> [ raised EXCEPT !.cur_guess = Some(NewGuessStructure(grammar, raised)) ] ]
             ELSE [ done |-> TRUE, c |-> [ c EXCEPT !.cur_guess = None ] ]

\* the slip of giving a level up without trying the next length
AdvancePointers_one_length(grammar, c) ==
    LET by_ip  == _increase_ip_for_target(grammar, c, c.target_level - c.cur_len[1])
        raised == [ c EXCEPT !.target_level = c.target_level + 1,
                             !.cur_len = << c.start_length, 0 >>,
                             !.cur_ip  = << c.start_ip, 0 >> ]
    IN  IF by_ip.ok THEN [ done |-> FALSE, c |-> by_ip.c ]
        ELSE IF c.increase_target_level = TRUE
             THEN [ done |-> FALSE,
                    c    |-> [ raised EXCEPT !.cur_guess = Some(NewGuessStructure(grammar, raised)) ] ]
             ELSE [ done |-> TRUE, c |-> [ c EXCEPT !.cur_guess = None ] ]

\* the slip of raising the target level without putting the pointers back
AdvancePointers_keeps_pointers(grammar, c) ==
    LET by_ip  == _increase_ip_for_target(grammar, c, c.target_level - c.cur_len[1])
        by_len == _increase_len_for_target(grammar, c)
        raised == [ c EXCEPT !.target_level = c.target_level + 1 ]
    IN  IF by_ip.ok THEN [ done |-> FALSE, c |-> by_ip.c ]
        ELSE IF by_len.ok THEN [ done |-> FALSE, c |-> by_len.c ]
        ELSE IF c.increase_target_level = TRUE
             THEN [ done |-> FALSE,
                    c    |-> [ raised EXCEPT !.cur_guess = Some(NewGuessStructure(grammar, raised)) ] ]
             ELSE [ done |-> TRUE, c |-> [ c EXCEPT !.cur_guess = None ] ]

\* next_guess, the part of one iteration of "while guess == None" before the
\* walker is asked again: done is the return None of a finished level
AdvancePointers(grammar, c) ==
    LET by_ip  == _increase_ip_for_target(grammar, c, c.target_level - c.cur_len[1])
        by_len == _increase_len_for_target(grammar, c)
        raised == [ c EXCEPT !.target_level = c.target_level + 1,
                             !.cur_len = << c.start_length, 0 >>,
                             !.cur_ip  = << c.start_ip, 0 >> ]
    IN  IF by_ip.ok THEN [ done |-> FALSE, c |-> by_ip.c ]
        ELSE IF by_len.ok THEN [ done |-> FALSE, c |-> by_len.c ]
        ELSE IF c.increase_target_level = TRUE
             THEN [ done |-> FALSE,
                    c    |-> [ raised EXCEPT !.cur_guess = Some(NewGuessStructure(grammar, raised)) ] ]
             ELSE [ done |-> TRUE, c |-> [ c EXCEPT !.cur_guess = None ] ]

\* save_session: the file after the call, the pickled items in the order they
\* are dumped; open(..., 'wb') truncates, and cur_guess == None raises at
\* "self.cur_guess.parse_tree" with seven items written
save_session(c) ==
    LET head == << c.version, c.rule_name, c.uuid,
                   c.target_level, c.increase_target_level, c.cur_ip, c.cur_len >>
    IN  IF c.cur_guess = None THEN head
        ELSE head \o << c.cur_guess[1].parse_tree, c.cur_guess[1].first_guess >>

\* the slip of not putting the saved first_guess flag back on the new walker
load_session_without_first_guess(grammar, c, file) ==
    LET set == [ c EXCEPT !.target_level = file[4],
                          !.increase_target_level = file[5],
                          !.cur_ip = file[6],
                          !.cur_len = file[7] ]
        gs  == GuessStructure(grammar,
                              grammar.ip[set.cur_ip[1]][set.cur_ip[2] + 1],
                              grammar.ln[set.cur_len[1]][set.cur_len[2] + 1],
                              set.target_level - set.cur_len[1] - set.cur_ip[1],
                              "default")
    IN  IF Len(file) < 3 THEN None
        ELSE IF file[1] # c.version THEN None
        ELSE IF file[2] # c.rule_name THEN None
        ELSE IF file[3] # c.uuid THEN None
        ELSE IF Len(file) < 9 THEN None
        ELSE Some([ set EXCEPT !.cur_guess = Some([ gs EXCEPT !.parse_tree = file[8] ]) ])

\* the slip of leaving the uuid out of the sanity checks
load_session_without_uuid_check(grammar, c, file) ==
    LET set == [ c EXCEPT !.target_level = file[4],
                          !.increase_target_level = file[5],
                          !.cur_ip = file[6],
                          !.cur_len = file[7] ]
        gs  == GuessStructure(grammar,
                              grammar.ip[set.cur_ip[1]][set.cur_ip[2] + 1],
                              grammar.ln[set.cur_len[1]][set.cur_len[2] + 1],
                              set.target_level - set.cur_len[1] - set.cur_ip[1],
                              "default")
    IN  IF Len(file) < 3 THEN None
        ELSE IF file[1] # c.version THEN None
        ELSE IF file[2] # c.rule_name THEN None
        ELSE IF Len(file) < 9 THEN None
        ELSE Some([ set EXCEPT !.cur_guess =
                        Some([ gs EXCEPT !.parse_tree = file[8], !.first_guess = file[9] ]) ])

\* the pointer <<level, index>> is the place of an entry of the table
Indexes(table, pointer) ==
    pointer[1] \in DOMAIN table /\ pointer[2] + 1 \in 1..Len(table[pointer[1]])

\* load_session: the cracker after a successful restore, None for an exception
\* (no file to open, an item missing, a failed sanity check, or a saved
\* pointer that is no index of the table it points into)
load_session(grammar, c, file) ==
    LET set == [ c EXCEPT !.target_level = file[4],
                          !.increase_target_level = file[5],
                          !.cur_ip = file[6],
                          !.cur_len = file[7] ]
        gs  == GuessStructure(grammar,
                              grammar.ip[set.cur_ip[1]][set.cur_ip[2] + 1],
                              grammar.ln[set.cur_len[1]][set.cur_len[2] + 1],
                              set.target_level - set.cur_len[1] - set.cur_ip[1],
                              "default")
    IN  IF Len(file) < 3 THEN None
        ELSE IF file[1] # c.version THEN None
        ELSE IF file[2] # c.rule_name THEN None
        ELSE IF file[3] # c.uuid THEN None
        ELSE IF Len(file) < 9 THEN None
        ELSE IF ~ ( Indexes(grammar.ip, file[6]) /\ Indexes(grammar.ln, file[7]) ) THEN None
        ELSE Some([ set EXCEPT !.cur_guess =
                        Some([ gs EXCEPT !.parse_tree = file[8], !.first_guess = file[9] ]) ])

\* the levels range(0, max_level) visits
RangeOfLevels(max_level) == 0..(max_level - 1)

\* the first level of "for i in range(0, self.max_level)" whose bucket holds
\* the entry, None when the loop ends without a break
first_level_with(table, entry, max_level) ==
    LET found == { i \in RangeOfLevels(max_level) :
                     \E j \in 1..Len(table[i]) : table[i][j] = entry }
    IN  IF found = { } THEN None
        ELSE Some(CHOOSE i \in found : \A j \in found : i <= j)

\* "for level in cp: if symbol in cp[level]": the level of a context's
\* dictionary that lists the symbol, None when no level does (the rule files
\* list a transition once, so the order of the dictionary does not matter)
cp_level_with(cp, symbol) ==
    LET found == { level \in DOMAIN cp :
                     \E j \in 1..Len(cp[level]) : cp[level][j] = symbol }
    IN  IF found = { } THEN None
        ELSE Some(CHOOSE level \in found : \A other \in found : level <= other)

\* the lines the third loop of parse_input prints from transition i on
\* (0-based, as in the code), ending with a KeyError line when the context
\* of a transition is not a key of grammar['cp']
RECURSIVE parse_transitions(_, _, _, _)
parse_transitions(grammar, c, guess, i) ==
    IF i >= Len(guess) - c.length_ip THEN << >>
    ELSE LET context == SubSeq(guess, i + 1, i + c.length_ip)
             symbol  == guess[i + c.length_ip + 1]
         IN  IF context \notin DOMAIN grammar.cp
             THEN << [ what |-> "KeyError", context |-> context ] >>
             ELSE LET level == cp_level_with(grammar.cp[context], symbol)
                      line  == IF level = None THEN << >>
                               ELSE << [ what |-> "CP", at |-> i, symbol |-> symbol,
                                         level |-> level[1] ] >>
                  IN  line \o parse_transitions(grammar, c, guess, i + 1)

\* parse_input(guess): what it prints, in order
parse_input(grammar, c, guess) ==
    LET check_len == Len(guess) - c.length_ip
        ln_level_of == first_level_with(grammar.ln, check_len, c.max_level)
        ip == SubSeq(guess, 1, Min(c.length_ip, Len(guess)))
        ip_level_of == first_level_with(grammar.ip, ip, c.max_level)
    IN  ( IF ln_level_of = None THEN << >>
          ELSE << [ what |-> "Length", length |-> Len(guess), level |-> ln_level_of[1] ] >> )
        \o ( IF ip_level_of = None THEN << >>
             ELSE << [ what |-> "IP", ip |-> ip, level |-> ip_level_of[1] ] >> )
        \o parse_transitions(grammar, c, guess, 0)

\* a cracker object that does not exist (not constructed, or __init__ raised)
NoCracker(state) ==
    [ state |-> state, version |-> None, rule_name |-> None, uuid |-> None,
      optimizer |-> None, max_level |-> None, length_ip |-> None,
      start_ip |-> None, start_length |-> None, target_level |-> None,
      increase_target_level |-> FALSE, cur_len |-> None, cur_ip |-> None,
      cur_guess |-> None ]

\* __init__: the constructed cracker; state "failed" when _find_first_object
\* or load_session raised, with the fields that were assigned before that
MarkovCracker(grammar, version, rule_name, uuid, optimizer, restore, file) ==
    LET first_ip  == _find_first_object(grammar, grammar.ip)
        first_len == _find_first_object(grammar, grammar.ln)
        fresh == [ state |-> "live", version |-> version, rule_name |-> rule_name,
                   uuid |-> uuid, optimizer |-> optimizer,
                   max_level |-> grammar.max_level, length_ip |-> grammar.ngram - 1,
                   start_ip |-> first_ip[1], start_length |-> first_len[1],
                   target_level |-> None, increase_target_level |-> FALSE,
                   cur_len |-> None, cur_ip |-> None, cur_guess |-> None ]
        failed == [ NoCracker("failed") EXCEPT !.version = version,
                                               !.rule_name = rule_name,
                                               !.uuid = uuid ]
    IN  IF first_ip = None \/ first_len = None THEN failed
        ELSE IF ~ restore THEN fresh
        ELSE IF load_session(grammar, fresh, file) = None THEN failed
        ELSE load_session(grammar, fresh, file)[1]

(***************************************************************************)
(* The state.  rule_files and grammar are the model on disk and as loaded. *)
(* cracker[1] is the enumerator a client drives; cracker[2] is a second    *)
(* object over the same grammar, constructed either fresh before the first *)
(* call or with restore = True right after a save_session, and from then   *)
(* on given every call the first one is given (ahead = 1 while it still    *)
(* owes one; a restored one is followed for MaxReplay calls, counted in    *)
(* replayed).  A session that was saved is restored before the original is *)
(* called again.  pc is a cracker's position: between calls or inside "while  *)
(* guess == None".  out[i] records what the calls of the current pass      *)
(* returned (a pass starts with a call that finds cur_guess == None), and  *)
(* pass_arg[i] the level argument that started it.  main is enumNG's       *)
(* main(): its position, its options and what it wrote.                    *)
(***************************************************************************)
VARIABLES rule_files, grammar, cracker, pc, out, pass_arg,
          save_file, file_fresh, second, ahead, replayed, main

vars == << rule_files, grammar, cracker, pc, out, pass_arg,
           save_file, file_fresh, second, ahead, replayed, main >>

Crackers == { 1, 2 }
LevelArgs == { None } \cup { Some(level) : level \in 0..(MaxLevel + 1) }
version == "0.1"
rule_name == "Default"

\* what a program that restores a session may give the constructor: its own
\* version, the rule name on its command line, the uuid of the grammar it loaded
Versions == { version, "0.2" }
RuleNames == { rule_name, "Other" }
Uuids == { "u1", "u2" }

\* the strings a client gives parse_input: the longest the model has a
\* length for, made of one symbol or of the two in turn
ParseInputs ==
    { [ j \in 1..MaxLength |-> "a" ], [ j \in 1..MaxLength |-> "b" ],
      [ j \in 1..MaxLength |-> IF j % 2 = 1 THEN "a" ELSE "b" ] }

\* the options of an enumNG run: max_guesses (-1 is the default, no limit),
\* debug, restore, and whether the interpreter still has time.clock()
\* (removed in Python 3.8)
MainOptions ==
    [ max_guesses : { -1 } \cup 1..MaxGuesses, debug : BOOLEAN, restore : BOOLEAN,
      has_clock : BOOLEAN ]

\* main() at position at, nothing written yet
MainAt(at, options) ==
    [ pc |-> at, max_guesses |-> options.max_guesses, debug |-> options.debug,
      restore |-> options.restore, has_clock |-> options.has_clock,
      num_guesses |-> 0, stdout |-> << >>, interrupted |-> FALSE, spin |-> FALSE,
      run |-> 1, before |-> << >>, trained |-> 0, saves |-> 0 ]

\* the enumerator used as a library: main() is not running
Init ==
    /\ main = MainAt("off", [ max_guesses |-> -1, debug |-> FALSE, restore |-> FALSE,
                              has_clock |-> TRUE ])
    /\ rule_files \in RuleFiles
    /\ grammar = load_rules(rule_files)
    /\ cracker = [ i \in Crackers |-> NoCracker("absent") ]
    /\ pc = [ i \in Crackers |-> "idle" ]
    /\ out = [ i \in Crackers |-> << >> ]
    /\ pass_arg = [ i \in Crackers |-> None ]
    /\ save_file = None
    /\ file_fresh = FALSE
    /\ second = "absent"
    /\ ahead = 0
    /\ replayed = 0

\* the client may call cracker i now
MayCall(i) ==
    /\ cracker[i].state = "live"
    /\ pc[i] = "idle"
    /\ i = 1 => \/ cracker[2].state = "absent" /\ ~ file_fresh
                \/ cracker[2].state = "live" /\ ahead = 0 /\ pc[2] = "idle"
                                             /\ replayed < MaxReplay
    /\ i = 2 => ahead = 1 /\ pc[1] = "idle"

\* cracker = MarkovCracker(...), restore = False
Construct(i) ==
    /\ cracker[i].state = "absent"
    /\ i = 2 => cracker[1].state = "live" /\ pc[1] = "idle" /\ out[1] = << >>
    /\ cracker' = [ cracker EXCEPT ![i] =
           MarkovCracker(grammar, version, rule_name, grammar.uuid, "optimizer", FALSE, save_file) ]
    /\ second' = IF i = 2 THEN "fresh" ELSE second
    /\ UNCHANGED << rule_files, grammar, pc, out, pass_arg, save_file, file_fresh, ahead, replayed, main >>

\* cracker = MarkovCracker(...), restore = True, on the session just saved
Restore(i, as_version, as_rule_name, as_uuid) ==
    /\ i = 2
    /\ cracker[i].state = "absent"
    /\ cracker[1].state = "live" /\ pc[1] = "idle"
    /\ file_fresh
    /\ cracker' = [ cracker EXCEPT ![i] =
           MarkovCracker(grammar, as_version, as_rule_name, as_uuid, "optimizer", TRUE, save_file) ]
    /\ second' = "restored"
    /\ pass_arg' = [ pass_arg EXCEPT ![i] = pass_arg[1] ]
    /\ UNCHANGED << rule_files, grammar, pc, out, save_file, file_fresh, ahead, replayed, main >>

\* cracker.save_session(), called between two next_guess calls
SaveSession(i) ==
    /\ i = 1
    /\ cracker[i].state = "live"
    /\ pc[i] = "idle"
    /\ cracker[2].state = "absent"
    /\ save_file' = save_session(cracker[i])
    /\ file_fresh' = TRUE
    /\ UNCHANGED << rule_files, grammar, cracker, pc, out, pass_arg, second, ahead, replayed, main >>

\* what a step of next_guess leaves behind: the cracker, and the returned
\* value (None or <<guess, target_level>>) or the position inside the loop
Returns(i, c, value, seen) ==
    /\ out' = [ out EXCEPT ![i] = Append(seen, value) ]
    /\ pc' = [ pc EXCEPT ![i] = "idle" ]
    /\ cracker' = [ cracker EXCEPT ![i] = c ]

StaysInLoop(i, c, seen) ==
    /\ out' = [ out EXCEPT ![i] = seen ]
    /\ pc' = [ pc EXCEPT ![i] = "loop" ]
    /\ cracker' = [ cracker EXCEPT ![i] = c ]

\* the slip of keeping the enumerator's fields on the class, where every
\* object sees the fields of the first one
self_of_the_class(i) == cracker[1]

\* self inside a method called on cracker i: the fields of that object
self(i) == cracker[i]

\* the EP tables a second rule set may have in place of the first one's: one
\* of the shapes of levels, or no entry at all
EPNames == IPShapes \cup { "none" }
EPNamed(files, name) == IF name = "none" THEN << >> ELSE EPFile(files.ngram, name)

\* the grammar cracker i was constructed over: the loaded one, or for a
\* second enumerator made over another EP table (second names it) the rule
\* set with that table in place of EP.level
grammar_of(i) ==
    IF i = 2 /\ second \in EPNames
    THEN load_rules([ rule_files EXCEPT !.EP = EPNamed(rule_files, second) ])
    ELSE grammar

\* cracker = MarkovCracker(...) over the rule set with another EP table
ConstructOtherEP(name) ==
    /\ cracker[2].state = "absent"
    /\ cracker[1].state = "live" /\ pc[1] = "idle" /\ out[1] = << >>
    /\ ~ file_fresh
    /\ EPNamed(rule_files, name) # rule_files.EP
    /\ second' = name
    /\ cracker' = [ cracker EXCEPT ![2] =
           MarkovCracker(load_rules([ rule_files EXCEPT !.EP = EPNamed(rule_files, name) ]),
                         version, rule_name, grammar.uuid, "optimizer", FALSE, save_file) ]
    /\ UNCHANGED << rule_files, grammar, pc, out, pass_arg, save_file, file_fresh, ahead, replayed, main >>

\* next_guess(level) up to the first test of "while guess == None"
next_guess(i, level) ==
    /\ MayCall(i)
    /\ LET starting == self(i).cur_guess = None
           started  == IF starting THEN StartChain(grammar_of(i), self(i), level)
                       ELSE [ bail |-> FALSE, c |-> self(i) ]
           seen     == IF starting THEN << >> ELSE out[i]
       IN  /\ starting /\ i = 2 => level = pass_arg[1]
           /\ ~ starting => level \in { None, pass_arg[i] }
           /\ pass_arg' = [ pass_arg EXCEPT ![i] = IF starting THEN level ELSE @ ]
           /\ IF started.bail THEN Returns(i, started.c, None, seen)
              ELSE \E asked \in { AskWalker(grammar_of(i), started.c) } :
                       IF asked.guess # None
                       THEN Returns(i, asked.c, << asked.guess[1], asked.c.target_level >>, seen)
                       ELSE StaysInLoop(i, asked.c, seen)
    /\ ahead' = IF i = 2 THEN 0 ELSE IF cracker[2].state = "live" THEN 1 ELSE ahead
    /\ replayed' = IF i = 2 /\ second = "restored" THEN replayed + 1 ELSE replayed
    /\ UNCHANGED << rule_files, grammar, save_file, file_fresh, second >>

\* one iteration of "while guess == None" and the test that follows it
WhileGuessIsNone(i) ==
    /\ cracker[i].state = "live"
    /\ pc[i] = "loop"
    /\ self(i).target_level < MaxTarget
    /\ \E advanced \in { AdvancePointers(grammar_of(i), self(i)) } :
           IF advanced.done THEN Returns(i, advanced.c, None, out[i])
           ELSE \E asked \in { AskWalker(grammar_of(i), advanced.c) } :
                    IF asked.guess # None
                    THEN Returns(i, asked.c, << asked.guess[1], asked.c.target_level >>, out[i])
                    ELSE StaysInLoop(i, asked.c, out[i])
    /\ UNCHANGED << rule_files, grammar, pass_arg, save_file, file_fresh, second, ahead, replayed >>

\* cracker.parse_input(guess), called between two next_guess calls with a
\* string typed at a prompt; the typed string and what the call printed
\* replace what the client read of the call before
ClientParse(i, guess) ==
    /\ cracker[i].state = "live"
    /\ pc[i] = "idle"
    /\ main' = [ main EXCEPT !.stdout = << [ what |-> "input", guess |-> guess ] >>
                                        \o parse_input(grammar, cracker[i], guess) ]
    /\ UNCHANGED << rule_files, grammar, cracker, pc, out, pass_arg,
                    save_file, file_fresh, second, ahead, replayed >>

\* a client's call of next_guess, and its going round the loop
ClientCall(i, level) == next_guess(i, level) /\ UNCHANGED main
ClientLoop(i) == WhileGuessIsNone(i) /\ UNCHANGED main

Next ==
    \/ \E i \in Crackers : Construct(i)
    \/ \E i \in Crackers, as_version \in Versions, as_rule_name \in RuleNames, as_uuid \in Uuids :
           Restore(i, as_version, as_rule_name, as_uuid)
    \/ \E i \in Crackers : SaveSession(i)
    \/ \E i \in Crackers, level \in LevelArgs : ClientCall(i, level)
    \/ \E i \in Crackers : ClientLoop(i)

Spec == Init /\ [][Next]_vars

\* two enumerators over rule sets that differ in the EP table only
NextOtherEP ==
    \/ Construct(1)
    \/ \E name \in EPNames : ConstructOtherEP(name)
    \/ \E i \in Crackers, level \in LevelArgs : ClientCall(i, level)
    \/ \E i \in Crackers : ClientLoop(i)

SpecOtherEP == Init /\ [][NextOtherEP]_vars

\* the library used by a client that also calls parse_input
NextParse ==
    \/ Next
    \/ \E i \in Crackers, guess \in ParseInputs : ClientParse(i, guess)

SpecParse == Init /\ [][NextParse]_vars

(***************************************************************************)
(* enumNG.py main(): the rule set is loaded, cracker[1] is the enumerator  *)
(* main constructs, and main.pc is its position: "init" before the         *)
(* constructor, "try" at the head of the try block, "call" at (or inside)  *)
(* cracker.next_guess(), "body" in the while body with the value that was  *)
(* returned, "done" after the loop, "failed" after the return that follows *)
(* a constructor exception, "crashed" after an exception nothing catches.  *)
(* main.run counts the runs of the program: the second one is the same     *)
(* command line with --restore, and main.before is what the first wrote.   *)
(* main.saves counts the calls of cracker.save_session() the run made.     *)
(***************************************************************************)
SaveEvery == 1000000

InitMain ==
    /\ main \in { MainAt("init", options) : options \in MainOptions }
    /\ rule_files \in RuleFiles
    /\ grammar = load_rules(rule_files)
    /\ cracker = [ i \in Crackers |-> NoCracker("absent") ]
    /\ pc = [ i \in Crackers |-> "idle" ]
    /\ out = [ i \in Crackers |-> << >> ]
    /\ pass_arg = [ i \in Crackers |-> None ]
    /\ save_file = None
    /\ file_fresh = FALSE
    /\ second = "absent"
    /\ ahead = 0
    /\ replayed = 0

\* try: cracker = MarkovCracker(...) except: ... return
MainConstruct ==
    /\ main.pc = "init"
    /\ LET made == MarkovCracker(grammar, version, rule_name, grammar.uuid,
                                 "optimizer", main.restore, save_file)
       IN  /\ cracker' = [ cracker EXCEPT ![1] = made ]
           /\ main' = [ main EXCEPT !.pc = IF made.state = "live" THEN "try" ELSE "failed" ]
    /\ UNCHANGED << rule_files, grammar, pc, out, pass_arg, save_file, file_fresh,
                    second, ahead, replayed >>

\* start_time = time.clock(); num_guesses = 0
MainStart ==
    /\ main.pc = "try"
    /\ main' = [ main EXCEPT !.pc = IF main.has_clock THEN "call" ELSE "crashed",
                              !.num_guesses = 0 ]
    /\ UNCHANGED << rule_files, grammar, cracker, pc, out, pass_arg, save_file,
                    file_fresh, second, ahead, replayed >>

\* main's position once next_guess has taken a step: still inside the call,
\* or at the unpacking "guess, level = ...", which raises on a None
AfterCall(returned, value) ==
    IF ~ returned THEN "call" ELSE IF value = None THEN "crashed" ELSE "body"

\* guess, level = cracker.next_guess(), up to the first loop test
MainCall ==
    /\ main.pc = "call"
    /\ next_guess(1, None)
    /\ main' = [ main EXCEPT !.pc = AfterCall(pc'[1] = "idle", out'[1][Len(out'[1])]) ]

\* the call going once round "while guess == None"
MainLoop ==
    /\ main.pc = "call"
    /\ WhileGuessIsNone(1)
    /\ main' = [ main EXCEPT !.pc = AfterCall(pc'[1] = "idle", out'[1][Len(out'[1])]) ]

\* the call going round "while guess == None" with T at MaxTarget and above:
\* no string of the model has a total level that high, so every such
\* iteration finds both advances failing and raises T again; spin tells one
\* iteration from the next
MainSpin ==
    /\ main.pc = "call"
    /\ pc[1] = "loop"
    /\ cracker[1].target_level >= MaxTarget
    /\ cracker[1].increase_target_level = TRUE
    /\ main' = [ main EXCEPT !.spin = ~ @ ]
    /\ UNCHANGED << rule_files, grammar, cracker, pc, out, pass_arg, save_file,
                    file_fresh, second, ahead, replayed >>

\* the body of "while guess != None" up to the next call
MainBody ==
    /\ main.pc = "body"
    /\ LET guess == out[1][Len(out[1])][1]
           count == main.num_guesses + 1
           saves == ~ main.debug /\ count % SaveEvery = 0
           stops == main.max_guesses > 0 /\ count >= main.max_guesses
       IN  /\ main' = [ main EXCEPT !.num_guesses = count,
                                     !.stdout = IF main.debug THEN @ ELSE Append(@, guess),
                                     !.saves = IF saves THEN @ + 1 ELSE @,
                                     !.pc = IF stops THEN "done" ELSE "call" ]
           /\ save_file' = IF saves THEN save_session(cracker[1]) ELSE save_file
    /\ UNCHANGED << rule_files, grammar, cracker, pc, out, pass_arg, file_fresh,
                    second, ahead, replayed >>

\* KeyboardInterrupt or BrokenPipeError inside the try block:
\* cracker.save_session(), which raises when cur_guess is None
MainInterrupt ==
    /\ main.pc \in { "try", "call", "body" }
    /\ main' = [ main EXCEPT !.interrupted = TRUE,
                              !.saves = @ + 1,
                              !.pc = IF cracker[1].cur_guess = None THEN "crashed" ELSE "done" ]
    /\ save_file' = save_session(cracker[1])
    /\ UNCHANGED << rule_files, grammar, cracker, pc, out, pass_arg, file_fresh,
                    second, ahead, replayed >>

\* the files save_rules_to_disk writes, in the order it writes them
SaveOrder == << "IP", "EP", "CP", "LN", "config", "alphabet" >>

\* what createNG computes from another training set for the same rule name
\* and n: other tables, and a uuid of its own
NewTraining(files) ==
    LET n == files.ngram
    IN  [ files EXCEPT
            !.uuid = "u2",
            !.IP = IF @ = IPFile(n, "countb") THEN IPFile(n, "firsta") ELSE IPFile(n, "countb"),
            !.EP = IF @ = EPFile(n, "countb") THEN EPFile(n, "firsta") ELSE EPFile(n, "countb"),
            !.CP = IF @ = CPFile(n, "sym") THEN CPFile(n, "diag") ELSE CPFile(n, "sym"),
            !.LN = IF @ = LNFile("ramp") THEN LNFile("one") ELSE LNFile("ramp") ]

\* the rule directory after save_rules_to_disk has written the first
\* "written" files of SaveOrder over the rule set that was there
Rewritten(files, trained, written) ==
    LET does(name) == \E j \in 1..written : SaveOrder[j] = name
    IN  [ IP |-> IF does("IP") THEN trained.IP ELSE files.IP,
          EP |-> IF does("EP") THEN trained.EP ELSE files.EP,
          CP |-> IF does("CP") THEN trained.CP ELSE files.CP,
          LN |-> IF does("LN") THEN trained.LN ELSE files.LN,
          ngram |-> IF does("config") THEN trained.ngram ELSE files.ngram,
          max_level |-> IF does("config") THEN trained.max_level ELSE files.max_level,
          uuid |-> IF does("config") THEN trained.uuid ELSE files.uuid,
          version |-> IF does("config") THEN trained.version ELSE files.version ]

\* the program started again with --restore on the session file the run
\* before it left, over the same rule set or over one createNG has trained
\* anew (a training writes a new uuid)
MainAgain(retrained) ==
    /\ main.pc \in { "done", "crashed" }
    /\ main.run = 1
    /\ save_file # None
    /\ main' = [ MainAt("init", [ max_guesses |-> main.max_guesses, debug |-> main.debug,
                                  restore |-> TRUE, has_clock |-> main.has_clock ])
                    EXCEPT !.run = 2, !.before = main.stdout,
                           !.trained = IF retrained THEN Len(SaveOrder) ELSE 0 ]
    /\ rule_files' = IF retrained THEN [ rule_files EXCEPT !.uuid = "u2" ] ELSE rule_files
    /\ grammar' = load_rules(rule_files')
    /\ cracker' = [ i \in Crackers |-> NoCracker("absent") ]
    /\ pc' = [ i \in Crackers |-> "idle" ]
    /\ out' = [ i \in Crackers |-> << >> ]
    /\ pass_arg' = [ i \in Crackers |-> None ]
    /\ UNCHANGED << save_file, file_fresh, second, ahead, replayed >>

\* the program started again with --restore after createNG was run on the
\* same rule name and got as far as writing the first "written" files
MainAfterTraining(written) ==
    /\ main.pc \in { "done", "crashed" }
    /\ main.run = 1
    /\ save_file # None
    /\ main' = [ MainAt("init", [ max_guesses |-> main.max_guesses, debug |-> main.debug,
                                  restore |-> TRUE, has_clock |-> main.has_clock ])
                    EXCEPT !.run = 2, !.before = main.stdout, !.trained = written ]
    /\ rule_files' = Rewritten(rule_files, NewTraining(rule_files), written)
    /\ grammar' = load_rules(rule_files')
    /\ cracker' = [ i \in Crackers |-> NoCracker("absent") ]
    /\ pc' = [ i \in Crackers |-> "idle" ]
    /\ out' = [ i \in Crackers |-> << >> ]
    /\ pass_arg' = [ i \in Crackers |-> None ]
    /\ UNCHANGED << save_file, file_fresh, second, ahead, replayed >>

\* the status the process ends with: main() returning (after the loop, or
\* after the message that follows a constructor exception) ends the script
\* normally, an exception nothing catches ends it with a traceback
exit_status ==
    IF main.pc \in { "done", "failed" } THEN Some(0)
    ELSE IF main.pc = "crashed" THEN Some(1)
    ELSE None

\* the steps main takes by itself
MainProgram == MainConstruct \/ MainStart \/ MainCall \/ MainLoop \/ MainSpin \/ MainBody

NextMain ==
    \/ MainConstruct
    \/ MainStart
    \/ MainCall
    \/ MainLoop
    \/ MainSpin
    \/ MainBody
    \/ MainInterrupt

SpecMain == InitMain /\ [][NextMain]_vars

\* one run of the program, and a second one that restores what it saved
NextResume ==
    \/ NextMain
    \/ \E retrained \in BOOLEAN : MainAgain(retrained)

SpecResume == InitMain /\ [][NextResume]_vars

\* one run of the program, a training run on its rule set that completes
\* or fails partway, and a second run that restores what the first saved
NextRetrain ==
    \/ NextMain
    \/ \E written \in 1..Len(SaveOrder) : MainAfterTraining(written)

SpecRetrain == InitMain /\ [][NextRetrain]_vars

\* what every step of main changes: its position, the enumerator's position
\* or the walker the enumerator holds
MainView == << main, pc, cracker[1].cur_guess >>

\* a run whose process is not stopped goes on taking main's steps
FairMain == SpecMain /\ WF_MainView(MainProgram)

(***************************************************************************)
(* What the model on disk says about a string: the level of each of its    *)
(* parts, read from the rule files (one line per key) and not from the     *)
(* enumerator's pointers.                                                  *)
(***************************************************************************)
SeqElems(seq) == { seq[j] : j \in 1..Len(seq) }

RECURSIVE SumOver(_, _)
SumOver(f, set) ==
    IF set = { } THEN 0
    ELSE LET x == CHOOSE y \in set : TRUE IN f[x] + SumOver(f, set \ { x })

\* the strings of the alphabet with lo..hi symbols
Strings(lo, hi) == UNION { SeqElems(Keys(m)) : m \in lo..hi }

FileHasIP(files, key) == \E j \in 1..Len(files.IP) : files.IP[j].key = key
FileIPLevel(files, key) == files.IP[CHOOSE j \in 1..Len(files.IP) : files.IP[j].key = key].level
FileHasCP(files, key) == \E j \in 1..Len(files.CP) : files.CP[j].key = key
FileCPLevel(files, key) == files.CP[CHOOSE j \in 1..Len(files.CP) : files.CP[j].key = key].level

\* the n-grams of str, by the position of their first symbol
NGramsOf(files, str) == [ j \in 1..(Len(str) - files.ngram + 1) |-> SubSeq(str, j, j + files.ngram - 1) ]

\* str is a string the model has a level for in every part
Scored(files, str) ==
    /\ Len(str) >= files.ngram - 1
    /\ Len(str) <= Len(files.LN)
    /\ FileHasIP(files, SubSeq(str, 1, files.ngram - 1))
    /\ \A j \in 1..(Len(str) - files.ngram + 1) : FileHasCP(files, NGramsOf(files, str)[j])

\* IP level + LN level + the CP level of every transition
TotalLevel(files, str) ==
    FileIPLevel(files, SubSeq(str, 1, files.ngram - 1))
    + files.LN[Len(str)]
    + SumOver([ j \in 1..(Len(str) - files.ngram + 1) |-> FileCPLevel(files, NGramsOf(files, str)[j]) ],
              1..(Len(str) - files.ngram + 1))

\* the pairs <<guess, T>> among the values a pass returned so far
Pairs(i) == SelectSeq(out[i], LAMBDA value : value # None)
PairSet(i) == { Pairs(i)[j] : j \in 1..Len(Pairs(i)) }

Auto(i) == cracker[i].state = "live" /\ cracker[i].increase_target_level = TRUE

(***************************************************************************)
(* C1 (I2): in a pass made in auto-increment mode, of any two consecutive  *)
(* returned pairs (g1, T1), (g2, T2), T1 <= T2: the returned target level  *)
(* never decreases from one call to the next.                              *)
(***************************************************************************)
C1_TargetNonDecreasing ==
    \A i \in Crackers :
        Auto(i) => LET pairs == Pairs(i)
                   IN  \A j \in 1..(Len(pairs) - 1) : pairs[j][2] <= pairs[j + 1][2]

\* an auto-increment pass has returned guesses at two different target levels
C1_Witness ==
    \E i \in Crackers :
        /\ Auto(i)
        /\ \E j \in 1..(Len(Pairs(i)) - 1) : Pairs(i)[j][2] < Pairs(i)[j + 1][2]

(***************************************************************************)
(* C2 (I1): every returned pair (guess, T) satisfies                       *)
(* IP level of guess[0:n-1] + LN level of len(guess) + the sum of the CP   *)
(* levels of the transitions of guess = T.                                 *)
(***************************************************************************)
C2_LevelsSumToTarget ==
    \A i \in Crackers : \A pair \in PairSet(i) :
        /\ Scored(rule_files, pair[1])
        /\ TotalLevel(rule_files, pair[1]) = pair[2]

\* a guess was returned whose IP, LN and CP parts all have a level above 0
C2_Witness ==
    \E i \in Crackers : \E pair \in PairSet(i) :
        /\ FileIPLevel(rule_files, SubSeq(pair[1], 1, rule_files.ngram - 1)) > 0
        /\ rule_files.LN[Len(pair[1])] > 0
        /\ pair[2] > FileIPLevel(rule_files, SubSeq(pair[1], 1, rule_files.ngram - 1))
                       + rule_files.LN[Len(pair[1])]

(***************************************************************************)
(* C3 (I3): in one auto-increment pass from the initial state no guess     *)
(* string is returned more than once (every IP prefix and every length of  *)
(* the model is in exactly one bucket).                                    *)
(***************************************************************************)
C3_NoGuessTwice ==
    \A i \in Crackers :
        Auto(i) => Cardinality({ pair[1] : pair \in PairSet(i) }) = Len(Pairs(i))

\* an auto-increment pass has gone through three target levels and returned
\* guesses of two lengths and two prefixes
C3_Witness ==
    \E i \in Crackers :
        /\ Auto(i)
        /\ Len(Pairs(i)) >= 4
        /\ Pairs(i)[Len(Pairs(i))][2] >= Pairs(i)[1][2] + 2
        /\ \E p, q \in PairSet(i) : Len(p[1]) # Len(q[1])
        /\ \E p, q \in PairSet(i) : p[1][1] # q[1][1]

\* the guess strings among the values a pass returned so far
Guesses(i) == { pair[1] : pair \in PairSet(i) }

\* both crackers are between calls and the second has been given every call
\* the first was given since the second exists
InStep ==
    /\ cracker[1].state = "live" /\ cracker[2].state = "live"
    /\ pc[1] = "idle" /\ pc[2] = "idle"
    /\ ahead = 0

(***************************************************************************)
(* C4 (I4): every string over the alphabet with n-1 .. max_length symbols  *)
(* whose parts all have a level in the written model is returned by        *)
(* next_guess() in auto-increment mode at some T, strings of exactly n-1   *)
(* symbols included.  By C1 and C2 that T is the string's total level, so  *)
(* once an auto-increment pass of the first enumerator is past that level  *)
(* the string is among the guesses the pass returned.                      *)
(***************************************************************************)
C4_AdmissibleEmitted ==
    \A str \in Strings(rule_files.ngram - 1, MaxLength) :
        ( /\ Auto(1)
          /\ Scored(rule_files, str)
          /\ cracker[1].target_level > TotalLevel(rule_files, str) )
        => str \in Guesses(1)

(***************************************************************************)
(* C5 (I5): an enumerator restored from a session saved after m >= 1 calls *)
(* returns, call for call, what the original returns from call m+1 on: the *)
(* values the restored one returned are the last values of the original.   *)
(***************************************************************************)
C5_SessionRoundTrip ==
    second = "restored" /\ InStep =>
        /\ Len(out[2]) <= Len(out[1])
        /\ out[2] = SubSeq(out[1], Len(out[1]) - Len(out[2]) + 1, Len(out[1]))

\* a restored enumerator has answered three calls, the session having been
\* saved in the middle of a walker, and has gone on to a higher target level
C5_Witness ==
    /\ second = "restored" /\ InStep
    /\ Len(Pairs(2)) >= 3
    /\ Len(out[1]) > Len(out[2])
    /\ save_file[9] = FALSE
    /\ Pairs(2)[Len(Pairs(2))][2] > save_file[4]

LexLess(p, q) == p[1] < q[1] \/ (p[1] = q[1] /\ p[2] < q[2])
LexLeq(p, q) == p = q \/ LexLess(p, q)

\* the entries <<level, index>> of a table of buckets
Entries(table) ==
    UNION { { << level, index - 1 >> : index \in 1..Len(table[level]) } : level \in DOMAIN table }

\* the lowest level of a table that has an entry
LowestLevel(table) ==
    CHOOSE level \in DOMAIN table :
        /\ Len(table[level]) > 0
        /\ \A lower \in DOMAIN table : lower < level => Len(table[lower]) = 0

\* no IP entry after c's IP pointer fits the target with c's length
IPExhausted(c) ==
    ~ \E e \in Entries(grammar.ip) :
          LexLess(c.cur_ip, e) /\ e[1] <= c.target_level - c.cur_len[1]

\* no LN entry after c's LN pointer fits the target
LNExhausted(c) ==
    ~ \E e \in Entries(grammar.ln) : LexLess(c.cur_len, e) /\ e[1] <= c.target_level

\* cracker i is inside a pass before and after the step
InPass(i) ==
    /\ cracker[i].state = "live" /\ cracker'[i].state = "live"
    /\ cracker[i].cur_guess # None /\ cracker'[i].cur_guess # None

\* the guess last returned, when the last call returned one, is the IP the
\* IP pointer is at followed by as many symbols as the LN pointer says
EmittedFromPointers ==
    \A i \in Crackers :
        ( /\ cracker[i].state = "live" /\ pc[i] = "idle"
          /\ out[i] # << >> /\ out[i][Len(out[i])] # None )
        => LET guess == out[i][Len(out[i])][1]
               c     == cracker[i]
           IN  /\ SubSeq(guess, 1, grammar.ngram - 1) = grammar.ip[c.cur_ip[1]][c.cur_ip[2] + 1]
               /\ Len(guess) - (grammar.ngram - 1) = grammar.ln[c.cur_len[1]][c.cur_len[2] + 1]

TieBreakStep ==
    \A i \in Crackers :
        InPass(i) /\ cracker'[i].target_level = cracker[i].target_level
        => LET c == cracker[i]
               d == cracker'[i]
           IN  /\ LexLeq(c.cur_len, d.cur_len)
               /\ d.cur_len = c.cur_len => LexLeq(c.cur_ip, d.cur_ip)
               /\ d.cur_len # c.cur_len => pc[i] = "loop" /\ IPExhausted(c)
               /\ d.cur_ip # c.cur_ip => pc[i] = "loop"

(***************************************************************************)
(* C7: while T stays the same the LN pointer never goes back, and with the *)
(* LN pointer the same the IP pointer never goes back, so the guesses of   *)
(* one T come out in (LN pointer, IP pointer) order; the LN pointer moves  *)
(* only when no further IP entry fits the current LN entry, and a pointer  *)
(* moves only after the current walker returned none.                      *)
(***************************************************************************)
C7_TieBreakOrder == [] EmittedFromPointers /\ [][TieBreakStep]_vars

\* within one target level a pass has returned guesses from two LN entries
\* and, for the first of them, from two IP entries
C7_Witness ==
    \E i \in Crackers : \E j \in 1..(Len(Pairs(i)) - 2) :
        /\ Pairs(i)[j][2] = Pairs(i)[j + 2][2]
        /\ Len(Pairs(i)[j][1]) = Len(Pairs(i)[j + 1][1])
        /\ SubSeq(Pairs(i)[j][1], 1, grammar.ngram - 1) # SubSeq(Pairs(i)[j + 1][1], 1, grammar.ngram - 1)
        /\ Len(Pairs(i)[j + 1][1]) # Len(Pairs(i)[j + 2][1])

\* the strings that some (LN entry, IP entry) of the loaded tables and some
\* choice of transitions give at total level T
Decomposed(T) ==
    { str \in Strings(grammar.ngram - 1, MaxLength) :
        /\ \E e \in Entries(grammar.ln) :
               grammar.ln[e[1]][e[2] + 1] = Len(str) - (grammar.ngram - 1)
        /\ Scored(rule_files, str)
        /\ TotalLevel(rule_files, str) = T }

\* out[i] holds everything the current pass of cracker i returned
WholePass(i) == i = 1 \/ second = "fresh"

AutoStart(i) ==
    /\ cracker[i].state = "live" /\ cracker'[i].state = "live"
    /\ cracker[i].cur_guess = None /\ cracker'[i].cur_guess # None
    /\ cracker'[i].increase_target_level = TRUE

TargetStep ==
    \A i \in Crackers :
        LET c == cracker[i]
            d == cracker'[i]
            first_len == << LowestLevel(grammar.ln), 0 >>
            first_ip  == << LowestLevel(grammar.ip), 0 >>
        IN  /\ AutoStart(i) =>
                /\ d.target_level = first_len[1] + first_ip[1]
                /\ d.cur_len = first_len /\ d.cur_ip = first_ip
            /\ InPass(i) /\ d.target_level # c.target_level =>
                /\ d.target_level = c.target_level + 1
                /\ c.increase_target_level = TRUE
                /\ IPExhausted(c) /\ LNExhausted(c)
                /\ d.cur_len = first_len /\ d.cur_ip = first_ip

(***************************************************************************)
(* C9: a pass in auto-increment mode starts at T = LN_min + IP_min, the    *)
(* lowest levels with a non-empty LN and IP bucket; inside a pass T only   *)
(* ever changes by +1, in auto-increment mode, when no further IP entry    *)
(* and no further LN entry fits the current T, and the step that raises T  *)
(* puts both pointers on the first entry of their lowest non-empty bucket. *)
(***************************************************************************)
C9_TargetRaisedByOne == [][TargetStep]_vars

\* an auto-increment pass over a model whose lowest IP and LN levels are not
\* both 0 has raised T twice and stands on the first entries again
C9_Witness ==
    \E i \in Crackers :
        /\ Auto(i) /\ cracker[i].cur_guess # None
        /\ LowestLevel(grammar.ln) + LowestLevel(grammar.ip) > 0
        /\ cracker[i].target_level >= LowestLevel(grammar.ln) + LowestLevel(grammar.ip) + 2
        /\ cracker[i].cur_len = << LowestLevel(grammar.ln), 0 >>
        /\ cracker[i].cur_ip = << LowestLevel(grammar.ip), 0 >>

(***************************************************************************)
(* C10: enumNG in normal mode with max_guesses = N > 0, on a model that    *)
(* loads and an enumerator that is constructed, never writes more than N   *)
(* guesses and, unless it is interrupted, ends its guess loop having       *)
(* written exactly N, also when the model has fewer than N guesses.  The   *)
(* run is one under an interpreter that has time.clock().                  *)
(***************************************************************************)
C10_GuessLimit ==
    ( main.max_guesses > 0 /\ ~ main.debug /\ main.has_clock ) =>
        /\ [] (Len(main.stdout) <= main.max_guesses)
        /\ <> \/ main.pc = "failed"
              \/ main.interrupted
              \/ main.pc = "done" /\ Len(main.stdout) = main.max_guesses

\* the session file does not carry the version, rule name and uuid of c
SessionMismatch(file, c) ==
    Len(file) < 3 \/ file[1] # c.version \/ file[2] # c.rule_name \/ file[3] # c.uuid

\* a cracker constructed with restore = True on a session that does not match
\* is no usable object and has returned nothing
MismatchRejected ==
    ( second = "restored" /\ SessionMismatch(save_file, cracker[2]) )
    => cracker[2].state = "failed" /\ out[2] = << >>

\* the step that constructs with restore = True: the saved values are taken
\* over when the three checks pass, and none of them otherwise
AdoptStep ==
    ( second = "absent" /\ second' = "restored" ) =>
        LET d == cracker'[2]
        IN  IF d.state = "live"
            THEN /\ ~ SessionMismatch(save_file, d)
                 /\ d.target_level = save_file[4]
                 /\ d.increase_target_level = save_file[5]
                 /\ d.cur_ip = save_file[6]
                 /\ d.cur_len = save_file[7]
                 /\ d.cur_guess[1].parse_tree = save_file[8]
                 /\ d.cur_guess[1].first_guess = save_file[9]
            ELSE /\ d.target_level = None /\ d.cur_ip = None
                 /\ d.cur_len = None /\ d.cur_guess = None

(***************************************************************************)
(* C11: constructing with restore = True fails, leaving no usable          *)
(* enumerator and no guess, whenever the saved version, rule name or uuid  *)
(* differs from the one given to the constructor; the saved T, flag, IP    *)
(* pointer, LN pointer and parse-tree state are taken over only when all   *)
(* three are the same.                                                     *)
(***************************************************************************)
C11_SessionSanityCheck == [] MismatchRejected /\ [][AdoptStep]_vars

\* a complete session was saved and the restore was refused although only
\* the uuid differs
C11_Witness ==
    /\ second = "restored"
    /\ cracker[2].state = "failed"
    /\ Len(save_file) = 9
    /\ save_file[1] = cracker[2].version
    /\ save_file[2] = cracker[2].rule_name
    /\ save_file[3] # cracker[2].uuid

(***************************************************************************)
(* C12.  When enumNG is asked to restore a session whose uuid disagrees    *)
(* with the model it loaded, the program ends with a non-zero exit status  *)
(* and writes no guess.                                                    *)
(***************************************************************************)
RestoresForeignSession ==
    /\ main.restore
    /\ Len(save_file) = 9
    /\ save_file[1] = version
    /\ save_file[2] = rule_name
    /\ save_file[3] # grammar.uuid

C12_ForeignSessionExit ==
    main.run = 2 /\ RestoresForeignSession /\ exit_status # None
        => exit_status # Some(0) /\ main.stdout = << >>

(***************************************************************************)
(* C13.  Session saves are atomic: at every point, also after an exception *)
(* partway through save_session(), the session file on disk is a complete  *)
(* session (the one saved before or the new one), never an empty or        *)
(* partly written one.                                                     *)
(***************************************************************************)
CompleteSession(file) == Len(file) = 9

C13_SaveAtomic == save_file # None => CompleteSession(save_file)

(***************************************************************************)
(* C14.  Cancellation: a KeyboardInterrupt or BrokenPipeError at any point *)
(* after enumNG has started generating guesses (inside its try block) is   *)
(* followed by a complete session save, after which main goes on to its    *)
(* end.                                                                    *)
(***************************************************************************)
C14_InterruptSaves ==
    main.interrupted =>
        /\ main.pc = "done"
        /\ CompleteSession(save_file)
        /\ save_file = save_session(cracker[1])

(***************************************************************************)
(* C15.  Interrupt-then-resume loses and duplicates nothing: the guesses   *)
(* printed before the interrupt followed by the guesses printed after      *)
(* restoring the saved session are the output of one uninterrupted run.    *)
(***************************************************************************)

\* next_guess from its first "guess = self.cur_guess.next_guess()" to its
\* return: the cracker and the guess, None when the pass is finished (or,
\* in auto mode, when T has passed every total level of the model)
RECURSIVE UntilGuess(_, _)
UntilGuess(g, c) ==
    LET asked    == AskWalker(g, c)
        advanced == AdvancePointers(g, asked.c)
    IN  IF asked.guess # None THEN asked
        ELSE IF asked.c.target_level >= MaxTarget THEN asked
        ELSE IF advanced.done THEN [ c |-> advanced.c, guess |-> None ]
        ELSE UntilGuess(g, advanced.c)

\* what the first n calls "cracker.next_guess()" of main's loop return
RECURSIVE GuessesFrom(_, _, _)
GuessesFrom(g, c, n) ==
    LET started  == IF c.cur_guess = None THEN StartChain(g, c, None).c ELSE c
        returned == UntilGuess(g, started)
    IN  IF n = 0 \/ returned.guess = None THEN << >>
        ELSE << returned.guess[1] >> \o GuessesFrom(g, returned.c, n - 1)

\* the first n lines of a run that nothing interrupts
Uninterrupted(n) ==
    GuessesFrom(grammar,
                MarkovCracker(grammar, version, rule_name, grammar.uuid, "optimizer", FALSE, None),
                n)

C15_ResumeLosesNothing ==
    ( main.run = 2 /\ ~ main.debug ) =>
        main.before \o main.stdout = Uninterrupted(Len(main.before) + Len(main.stdout))

(***************************************************************************)
(* load_rules() step by step, on the text of the files.  createNG writes a *)
(* level as str(level); the loader reads it back with int().  A string is  *)
(* the sequence of its characters.  rule_files holds the text on disk,     *)
(* grammar the dictionary the caller passed in (None for a key not set     *)
(* yet), and main the position of load_rules: "config", "alphabet", "ip",  *)
(* "ep", "cp", "ln", then "true" or "false" for what it returned;          *)
(* main.opened is the set of table files opened so far.  Before that       *)
(* (main.pc = "save") createNG writes the tables it trained, main.trained, *)
(* to the empty rule directory; a key is written as the bytes of its       *)
(* symbols in the encoding of the training file and read back in the       *)
(* encoding open() uses by default, main.locale.                           *)
(***************************************************************************)
Digits == << "0", "1", "2", "3", "4", "5", "6", "7", "8", "9" >>

IsDigit(ch) == \E i \in 1..Len(Digits) : Digits[i] = ch

DigitValue(ch) == (CHOOSE i \in 1..Len(Digits) : Digits[i] = ch) - 1

RECURSIVE DigitsValue(_)
DigitsValue(text) ==
    IF text = << >> THEN 0
    ELSE DigitsValue(SubSeq(text, 1, Len(text) - 1)) * Len(Digits) + DigitValue(text[Len(text)])

RECURSIVE Numeral(_)
Numeral(k) ==
    IF k < Len(Digits) THEN << Digits[k + 1] >>
    ELSE Numeral(k \div Len(Digits)) \o << Digits[(k % Len(Digits)) + 1] >>

\* str(level), as the trainer writes it
str(k) == IF k < 0 THEN << "-" >> \o Numeral(0 - k) ELSE Numeral(k)

\* int(text): the number, None for a ValueError
int(text) ==
    LET signed == text # << >> /\ text[1] \in { "-", "+" }
        body   == IF signed THEN Tail(text) ELSE text
    IN  IF body = << >> \/ \E i \in 1..Len(body) : ~ IsDigit(body[i]) THEN None
        ELSE IF text[1] = "-" THEN Some(0 - DigitsValue(body))
        ELSE Some(DigitsValue(body))

\* LooseVersion(text).version for a version of digits and dots: the numbers
\* between the dots
RECURSIVE LooseVersion(_)
LooseVersion(text) ==
    IF text = << >> THEN << >>
    ELSE IF text[1] = "." THEN LooseVersion(Tail(text))
    ELSE LET run == CHOOSE n \in 1..Len(text) :
                        /\ \A i \in 1..n : IsDigit(text[i])
                        /\ n = Len(text) \/ ~ IsDigit(text[n + 1])
         IN  << DigitsValue(SubSeq(text, 1, run)) >> \o LooseVersion(SubSeq(text, run + 1, Len(text)))

\* Python's "<" on two lists of numbers
RECURSIVE list_lt(_, _)
list_lt(a, b) ==
    IF a = << >> THEN b # << >>
    ELSE IF b = << >> THEN FALSE
    ELSE IF a[1] # b[1] THEN a[1] < b[1]
    ELSE list_lt(Tail(a), Tail(b))

\* the slip of comparing the two version strings as strings
version_older_as_strings(recorded, min_version) ==
    LET code(ch) == IF ch = "." THEN 0 ELSE DigitValue(ch) + 1
    IN  list_lt([ i \in 1..Len(recorded) |-> code(recorded[i]) ],
                [ i \in 1..Len(min_version) |-> code(min_version[i]) ])

\* LooseVersion(grammar['version']) < LooseVersion(min_version)
version_older(recorded, min_version) ==
    list_lt(LooseVersion(recorded), LooseVersion(min_version))

\* the text of a table file createNG wrote: level, tab, key on every line
\* (IP, EP, CP), or the level alone (LN)
TextOf(files) ==
    LET lines(file) == [ i \in 1..Len(file) |->
                           [ level |-> str(file[i].level), key |-> file[i].key ] ]
    IN  [ files EXCEPT !.IP = lines(files.IP), !.EP = lines(files.EP), !.CP = lines(files.CP),
                       !.LN = [ i \in 1..Len(files.LN) |-> [ level |-> str(files.LN[i]) ] ] ]

Tables == { "IP", "EP", "CP", "LN" }

\* what a level field of a damaged file may read: below the range, above it,
\* not a number, nothing
BadLevels == { str(0 - 1), str(MaxLevel + 1), << "x" >>, << >> }

\* a file damaged after training: one level field overwritten, or a table
\* file cut down to nothing
Damages ==
    { [ kind |-> "none" ] }
        \cup [ kind : { "level" }, table : Tables, line : 1..2, text : BadLevels ]
        \cup [ kind : { "empty" }, table : { "IP", "LN" } ]

Damaged(files, damage) ==
    CASE damage.kind = "none"  -> files
      [] damage.kind = "empty" -> [ files EXCEPT ![damage.table] = << >> ]
      [] damage.kind = "level" ->
             [ files EXCEPT ![damage.table] =
                 [ i \in 1..Len(@) |-> IF i = damage.line
                                       THEN [ @[i] EXCEPT !.level = damage.text ]
                                       ELSE @[i] ] ]

\* the versions a rule set may record and a caller may ask for
VersionTexts == { << "0", ".", "1" >>, << "0", ".", "2" >>, << "0", ".", "1", "0" >>,
                  << "1", ".", "0" >> }

\* the encodings of a training file, and of the platform that loads the rules
Encodings == { "utf-8", "latin-1" }

\* the alphabets of a rule set: the letters a and b, or a learned one with a
\* letter outside ASCII in place of b
Alphabets == { alphabet, << "a", "eacute" >> }

\* the bytes of one symbol; a byte below 128 is named by its character
encode(symbol, encoding) ==
    IF symbol # "eacute" THEN << symbol >>
    ELSE IF encoding = "utf-8" THEN << "C3", "A9" >>
    ELSE << "E9" >>

RECURSIVE encode_key(_, _)
encode_key(key, encoding) ==
    IF key = << >> THEN << >>
    ELSE encode(key[1], encoding) \o encode_key(Tail(key), encoding)

\* the symbols of a run of bytes, None for a UnicodeDecodeError
RECURSIVE decode(_, _)
decode(bytes, encoding) ==
    LET high == { "C3", "A9", "E9" }
        rest(n) == decode(SubSeq(bytes, n + 1, Len(bytes)), encoding)
        then(symbol, n) == IF rest(n) = None THEN None ELSE Some(<< symbol >> \o rest(n)[1])
    IN  IF bytes = << >> THEN Some(<< >>)
        ELSE IF bytes[1] \notin high THEN then(bytes[1], 1)
        ELSE IF encoding = "latin-1"
             THEN then(CASE bytes[1] = "C3" -> "Atilde"
                         [] bytes[1] = "A9" -> "copyright"
                         [] bytes[1] = "E9" -> "eacute", 1)
        ELSE IF bytes[1] = "C3" /\ Len(bytes) > 1 /\ bytes[2] = "A9" THEN then("eacute", 2)
        ELSE None

\* the trainer's tables after training: IP, EP (with levels of its own) and
\* CP in the iteration order of omen_trainer.grammar, LN by length, over the
\* given letters, and the config_info that goes with them
Trained(files, recorded, letters, encoding) ==
    LET relabel(key) == [ i \in 1..Len(key) |->
                            IF key[i] = alphabet[1] THEN letters[1] ELSE letters[2] ]
        lines(file) == [ i \in 1..Len(file) |-> [ file[i] EXCEPT !.key = relabel(@) ] ]
    IN  [ ngram |-> files.ngram, max_level |-> files.max_level, uuid |-> files.uuid,
          version |-> recorded, alphabet_encoding |-> encoding, alphabet |-> letters,
          IP |-> lines(files.IP), EP |-> lines(EPFile(files.ngram, "firsta")),
          CP |-> lines(files.CP), LN |-> files.LN ]

Trainers ==
    LET bases == { f \in RuleFiles : f.IP = IPFile(f.ngram, "countb")
                                     /\ f.CP \in { CPFile(f.ngram, "sym"), CPFile(f.ngram, "sparse") } }
    IN  { Trained(files, recorded, alphabet, "utf-8") :
            files \in bases, recorded \in VersionTexts }
        \cup { Trained(files, << "0", ".", "1" >>, letters, encoding) :
                 files \in bases, letters \in Alphabets, encoding \in Encodings }

\* the rule directory before anything is written to it
NoFiles ==
    [ ngram |-> None, max_level |-> None, uuid |-> None, version |-> None,
      alphabet_encoding |-> None, alphabet |-> << >>,
      IP |-> << >>, EP |-> << >>, CP |-> << >>, LN |-> << >> ]

\* save_rules_to_disk: the directory after the first "written" files of
\* SaveOrder have been written
save_rules_to_disk(disk, trainer, written) ==
    LET text == TextOf(trainer)
        bytes(file) == [ i \in 1..Len(file) |->
                           [ file[i] EXCEPT !.key = encode_key(@, trainer.alphabet_encoding) ] ]
        does(name) == \E i \in 1..written : SaveOrder[i] = name
    IN  [ IP |-> IF does("IP") THEN bytes(text.IP) ELSE disk.IP,
          EP |-> IF does("EP") THEN bytes(text.EP) ELSE disk.EP,
          CP |-> IF does("CP") THEN bytes(text.CP) ELSE disk.CP,
          LN |-> IF does("LN") THEN text.LN ELSE disk.LN,
          ngram |-> IF does("config") THEN trainer.ngram ELSE disk.ngram,
          max_level |-> IF does("config") THEN trainer.max_level ELSE disk.max_level,
          uuid |-> IF does("config") THEN trainer.uuid ELSE disk.uuid,
          version |-> IF does("config") THEN trainer.version ELSE disk.version,
          alphabet_encoding |-> IF does("config") THEN trainer.alphabet_encoding
                                ELSE disk.alphabet_encoding,
          alphabet |-> IF does("alphabet")
                       THEN [ i \in 1..Len(trainer.alphabet) |->
                                encode(trainer.alphabet[i], trainer.alphabet_encoding) ]
                       ELSE disk.alphabet ]

\* a line the loader accepts: int() succeeds and the level passes the range check
GoodLine_without_range_check(line, max_level) ==
    int(line.level) # None

GoodLine(line, max_level) ==
    /\ int(line.level) # None
    /\ ~ ( int(line.level)[1] < 0 \/ int(line.level)[1] > max_level )

\* the line can be decoded (LN.level holds digits only)
Decodes(line, locale) ==
    "key" \in DOMAIN line => decode(line.key, locale) # None

\* the lines read before the first one that raises
GoodPrefix(file, max_level, locale) ==
    LET bad == { i \in 1..Len(file) :
                   ~ ( Decodes(file[i], locale) /\ GoodLine(file[i], max_level) ) }
    IN  IF bad = { } THEN Len(file)
        ELSE (CHOOSE i \in bad : \A j \in bad : i <= j) - 1

\* those lines as text, with their levels as numbers
ReadLines(file, count, locale) ==
    [ i \in 1..count |->
        IF "key" \in DOMAIN file[i]
        THEN [ level |-> int(file[i].level)[1], key |-> decode(file[i].key, locale)[1] ]
        ELSE [ level |-> int(file[i].level)[1] ] ]

\* the grammar dictionary as the caller passes it in
NoGrammar ==
    [ ngram |-> None, max_level |-> None, uuid |-> None, version |-> None,
      alphabet |-> None, ip |-> None, ep |-> None, cp |-> None, ln |-> None ]

\* load_rules about to be called on what a trainer is about to write
TrainAndLoad(trainer, min_version, locale) ==
    [ pc |-> "save", min_version |-> min_version, opened |-> { },
      trained |-> trainer, locale |-> locale, damaged |-> FALSE ]

InitLoad ==
    /\ main \in { TrainAndLoad(trainer, min_version, locale) :
                    trainer \in Trainers,
                    min_version \in { None } \cup { Some(text) : text \in VersionTexts },
                    locale \in Encodings }
    /\ rule_files = NoFiles
    /\ grammar = NoGrammar
    /\ cracker = [ i \in Crackers |-> NoCracker("absent") ]
    /\ pc = [ i \in Crackers |-> "idle" ]
    /\ out = [ i \in Crackers |-> << >> ]
    /\ pass_arg = [ i \in Crackers |-> None ]
    /\ save_file = None
    /\ file_fresh = FALSE
    /\ second = "absent"
    /\ ahead = 0
    /\ replayed = 0

\* what load_rules does not touch
enumerator == << cracker, pc, out, pass_arg, save_file, file_fresh, second, ahead, replayed >>

\* createNG: save_rules_to_disk(omen_trainer, save_info, config_info)
SaveRules ==
    /\ main.pc = "save"
    /\ rule_files' = save_rules_to_disk(rule_files, main.trained, Len(SaveOrder))
    /\ main' = [ main EXCEPT !.pc = "config" ]
    /\ UNCHANGED << grammar, enumerator >>

\* a table file is damaged between training and loading
Damage(damage) ==
    /\ main.pc = "config"
    /\ ~ main.damaged
    /\ damage.kind # "none"
    /\ rule_files' = Damaged(rule_files, damage)
    /\ main' = [ main EXCEPT !.damaged = TRUE ]
    /\ UNCHANGED << grammar, enumerator >>

\* _load_config, then the check against min_version
LoadConfig ==
    /\ main.pc = "config"
    /\ grammar' = [ grammar EXCEPT !.version = rule_files.version,
                                   !.ngram = rule_files.ngram,
                                   !.max_level = rule_files.max_level,
                                   !.uuid = rule_files.uuid ]
    /\ main' = [ main EXCEPT !.pc =
                   IF main.min_version = None THEN "alphabet"
                   ELSE IF version_older(rule_files.version, main.min_version[1]) THEN "false"
                   ELSE "alphabet" ]
    /\ UNCHANGED << rule_files, enumerator >>

\* _load_alphabet
LoadAlphabet ==
    /\ main.pc = "alphabet"
    /\ grammar' = [ grammar EXCEPT !.alphabet =
                      [ i \in 1..Len(rule_files.alphabet) |->
                          decode(rule_files.alphabet[i], rule_files.alphabet_encoding)[1][1] ] ]
    /\ main' = [ main EXCEPT !.pc = "ip" ]
    /\ UNCHANGED << rule_files, enumerator >>

\* _load_ngrams for IP.level, EP.level, CP.level: the table holds what was
\* read when a line raises, and load_rules returns False from its except
LoadNgrams(name) ==
    /\ main.pc = name
    /\ LET table == CASE name = "ip" -> "IP" [] name = "ep" -> "EP" [] name = "cp" -> "CP"
           file  == rule_files[table]
           count == GoodPrefix(file, grammar.max_level, main.locale)
           read  == ReadLines(file, count, main.locale)
       IN  /\ grammar' = [ grammar EXCEPT ![name] =
                             CASE name = "ip" -> _load_ngrams_ip(read, grammar.max_level)
                               [] name = "ep" -> _load_ngrams_ep(read)
                               [] name = "cp" -> _load_ngrams_cp(read) ]
           /\ main' = [ main EXCEPT !.opened = @ \cup { table },
                                     !.pc = IF count < Len(file) THEN "false"
                                            ELSE CASE name = "ip" -> "ep"
                                                   [] name = "ep" -> "cp"
                                                   [] name = "cp" -> "ln" ]
    /\ UNCHANGED << rule_files, enumerator >>

\* _load_length for LN.level with min_size = grammar['ngram'], and the
\* "return True" that follows it
LoadLength ==
    /\ main.pc = "ln"
    /\ LET count == GoodPrefix(rule_files.LN, grammar.max_level, main.locale)
           read  == ReadLines(rule_files.LN, count, main.locale)
       IN  /\ grammar' = [ grammar EXCEPT !.ln =
                             _load_length([ i \in 1..count |-> read[i].level ],
                                          grammar.max_level, grammar.ngram) ]
           /\ main' = [ main EXCEPT !.opened = @ \cup { "LN" },
                                     !.pc = IF count < Len(rule_files.LN) THEN "false" ELSE "true" ]
    /\ UNCHANGED << rule_files, enumerator >>

NextLoad ==
    \/ SaveRules
    \/ \E damage \in Damages : Damage(damage)
    \/ LoadConfig
    \/ LoadAlphabet
    \/ \E name \in { "ip", "ep", "cp" } : LoadNgrams(name)
    \/ LoadLength

SpecLoad == InitLoad /\ [][NextLoad]_vars

\* version a is an older release than version b: at the first number where
\* they differ a has the smaller one, or a is b with numbers left off
Older(a, b) ==
    LET na == LooseVersion(a)
        nb == LooseVersion(b)
    IN  \E i \in 1..Len(nb) :
            /\ \A j \in 1..(i - 1) : j <= Len(na) /\ na[j] = nb[j]
            /\ i > Len(na) \/ na[i] < nb[i]

\* load_rules has got past _load_config
ConfigRead == main.pc \notin { "save", "config" }

\* the version on disk is older than the one the caller asked for
TooOld == main.min_version # None /\ Older(rule_files.version, main.min_version[1])

\* no table file was opened and no table is in the grammar
NoTableRead ==
    /\ main.opened = { }
    /\ grammar.ip = None /\ grammar.ep = None /\ grammar.cp = None /\ grammar.ln = None

(***************************************************************************)
(* C16.  load_rules() returns False, having read none of the IP, EP, CP    *)
(* and LN tables, for a model whose recorded trainer version is older than *)
(* min_version; it rejects nothing on version grounds (returns False       *)
(* before any table is opened) when the recorded version is min_version or *)
(* newer, or when min_version is None.                                     *)
(***************************************************************************)
C16_MinVersion ==
    /\ ( ConfigRead /\ TooOld ) => ( main.pc = "false" /\ NoTableRead )
    /\ ( main.pc = "false" /\ main.opened = { } ) => TooOld

C16_Witness ==
    /\ main.pc = "false"
    /\ NoTableRead
    /\ rule_files.version = << "0", ".", "2" >>
    /\ main.min_version = Some(<< "0", ".", "1", "0" >>)

\* every level field of the four table files
LevelFields(files) ==
    UNION { { files[table][i].level : i \in 1..Len(files[table]) } : table \in Tables }

\* some line carries a level that is no integer or lies outside 0..max_level
HasBadLevel(files) ==
    \E text \in LevelFields(files) :
        int(text) = None \/ int(text)[1] \notin 0..files.max_level

\* the levels under which the loaded tables hold something
StoredLevels(g) ==
    { level \in DOMAIN g.ip : g.ip[level] # << >> }
        \cup { g.ep[key] : key \in DOMAIN g.ep }
        \cup UNION { DOMAIN g.cp[ctx] : ctx \in DOMAIN g.cp }
        \cup { level \in DOMAIN g.ln : g.ln[level] # << >> }

(***************************************************************************)
(* C17.  After load_rules() has returned True every level stored in the    *)
(* IP, EP, CP and LN tables lies in 0..max_level, and with a file line     *)
(* whose level is outside that range or is no integer load_rules() does    *)
(* not return True (it returns False).                                     *)
(***************************************************************************)
C17_LevelsInRange ==
    /\ main.pc = "true" => StoredLevels(grammar) \subseteq 0..grammar.max_level
    /\ HasBadLevel(rule_files) => main.pc # "true"

C17_Witness ==
    /\ main.pc = "false"
    /\ "EP" \in main.opened
    /\ "CP" \notin main.opened
    /\ \E i \in 1..Len(rule_files.EP) : rule_files.EP[i].level = str(MaxLevel + 1)

\* a level-bucketed table with something in it
HasEntry(table) == \E level \in DOMAIN table : table[level] # << >>

(***************************************************************************)
(* C18.  The loader fails fast on an empty model: load_rules() does not    *)
(* return True when the IP table or the LN table has no non-empty bucket.  *)
(***************************************************************************)
C18_EmptyModelRejected ==
    main.pc = "true" => ( HasEntry(grammar.ip) /\ HasEntry(grammar.ln) )

(***************************************************************************)
(* C19.  For IP and LN tables that each have a non-empty bucket at some    *)
(* level in 0..max_level (also when it is only the bucket at max_level),   *)
(* the construction of a MarkovCracker succeeds, and start_ip and          *)
(* start_length are the lowest levels whose buckets are non-empty.         *)
(***************************************************************************)
C19_FirstObject ==
    ( cracker[1].state # "absent" /\ HasEntry(grammar.ip) /\ HasEntry(grammar.ln) ) =>
        /\ cracker[1].state = "live"
        /\ cracker[1].start_ip = LowestLevel(grammar.ip)
        /\ cracker[1].start_length = LowestLevel(grammar.ln)

\* the count k sits in the LN bucket of the given level
InBucket(level, k) ==
    \E j \in 1..Len(grammar.ln[level]) : grammar.ln[level][j] = k

(***************************************************************************)
(* C20.  After LN.level is loaded (line l is the level of length l), the   *)
(* LN table holds, for exactly the lengths l >= n-1, the count of CP       *)
(* applications k = l - (n-1) in the bucket of that length's level, in     *)
(* increasing order within a bucket; shorter lengths are not represented,  *)
(* and no guess shorter than n-1 symbols is emitted.                       *)
(***************************************************************************)
C20_LengthsRepresented ==
    /\ \A l \in 1..Len(rule_files.LN) :
           l >= grammar.ngram - 1 <=> InBucket(rule_files.LN[l], l - (grammar.ngram - 1))
    /\ \A level \in DOMAIN grammar.ln :
           /\ \A j \in 1..Len(grammar.ln[level]) :
                  LET l == grammar.ln[level][j] + (grammar.ngram - 1)
                  IN  l \in 1..Len(rule_files.LN) /\ rule_files.LN[l] = level
           /\ \A j \in 1..(Len(grammar.ln[level]) - 1) :
                  grammar.ln[level][j] < grammar.ln[level][j + 1]
    /\ \A i \in Crackers : \A guess \in Guesses(i) : Len(guess) >= grammar.ngram - 1

\* the entries of a sequence of lines that carry the given level, in order
KeysAt(lines, level) ==
    LET at == SelectSeq(lines, LAMBDA line : line.level = level)
    IN  [ i \in 1..Len(at) |-> at[i].key ]

\* the loaded tables say what the trainer's tables say: every key at its IP
\* level and its EP level, every transition at its CP level, every length
\* the loader represents at its LN level, the buckets of IP and CP in the
\* trainer's iteration order
SameTables(trainer, g) ==
    /\ \A level \in 0..trainer.max_level :
           g.ip[level] = KeysAt(trainer.IP, level)
    /\ DOMAIN g.ep = { trainer.EP[i].key : i \in 1..Len(trainer.EP) }
    /\ \A i \in 1..Len(trainer.EP) : g.ep[trainer.EP[i].key] = trainer.EP[i].level
    /\ \A i \in 1..Len(trainer.CP) :
           LET key == trainer.CP[i].key
               ctx == SubSeq(key, 1, Len(key) - 1)
               from_ctx == SelectSeq(trainer.CP,
                                     LAMBDA line : SubSeq(line.key, 1, Len(line.key) - 1) = ctx)
           IN  /\ ctx \in DOMAIN g.cp
               /\ trainer.CP[i].level \in DOMAIN g.cp[ctx]
               /\ \A level \in DOMAIN g.cp[ctx] :
                      g.cp[ctx][level] =
                          [ j \in 1..Len(KeysAt(from_ctx, level)) |->
                              KeysAt(from_ctx, level)[j][Len(key)] ]
    /\ \A ctx \in DOMAIN g.cp :
           \E i \in 1..Len(trainer.CP) : SubSeq(trainer.CP[i].key, 1, Len(ctx)) = ctx
    /\ \A level \in DOMAIN g.ln : \A j \in 1..Len(g.ln[level]) :
           trainer.LN[g.ln[level][j] + (trainer.ngram - 1)] = level

\* load_rules has returned
Loaded == main.pc \in { "true", "false" }

(***************************************************************************)
(* C21.  Model round-trip: after save_rules_to_disk() followed by          *)
(* load_rules() (on the files as written, with a min_version the model     *)
(* satisfies), every key has the IP level and the EP level of the          *)
(* trainer's tables, every transition its CP level, every represented      *)
(* length its LN level, and the entries of every IP and CP bucket are in   *)
(* the trainer's iteration order.                                          *)
(***************************************************************************)
C21_RoundTrip ==
    ( Loaded /\ ~ main.damaged /\ ~ TooOld ) =>
        ( main.pc = "true" /\ SameTables(main.trained, grammar) )

\* the fields of an enumerator that __init__ sets and no method assigns:
\* what it was given, and what it derived from the model
GivenFields ==
    { "version", "rule_name", "uuid", "optimizer", "max_level", "length_ip",
      "start_ip", "start_length" }

\* a step that leaves the model alone: the rule files, every entry of the
\* loaded grammar, and the given fields of every enumerator that exists
\* before and after it
ModelUntouched ==
    /\ rule_files' = rule_files
    /\ grammar' = grammar
    /\ \A i \in Crackers :
           ( cracker[i].state = "live" /\ cracker'[i].state = "live" ) =>
               \A f \in GivenFields : cracker'[i][f] = cracker[i][f]

\* the model as the enumerators hold it
TheModel ==
    << rule_files, grammar,
       [ i \in Crackers |-> [ f \in GivenFields |-> cracker[i][f] ] ] >>

(***************************************************************************)
(* C22.  The loaded model is immutable during enumeration: no step of      *)
(* next_guess(), parse_input(), save_session() or of a constructor running *)
(* load_session() changes an entry of grammar (ip, ln, cp, ep, alphabet,   *)
(* ngram, max_level, uuid); an enumerator changes only its own fields      *)
(* target_level, increase_target_level, cur_len, cur_ip and cur_guess.     *)
(***************************************************************************)
C22_ModelImmutable == [][ModelUntouched]_TheModel

\* a restored enumerator has been called after a save, and parse_input has
\* printed the levels of a string
C22_Witness ==
    /\ second = "restored"
    /\ cracker[2].state = "live"
    /\ out[2] # << >>
    /\ save_file # None
    /\ main.stdout # << >>

FileEPLevel(files, key) == files.EP[CHOOSE j \in 1..Len(files.EP) : files.EP[j].key = key].level

\* the string whose levels the terminal shows, None before the first
\* parse_input call
Parsed == IF main.stdout = << >> THEN None ELSE Some(main.stdout[1].guess)

\* the lines of the last parse_input call that report the given part
Reported(what) == SelectSeq(Tail(main.stdout), LAMBDA line : line.what = what)

\* parse_input reported the level of the length, of the IP and of every
\* transition of the parsed string as the rule files have them
ReportsLNIPCP(parsed) ==
    LET n == rule_files.ngram
    IN  /\ \E j \in 1..Len(Reported("Length")) :
               /\ Reported("Length")[j].length = Len(parsed)
               /\ Reported("Length")[j].level = rule_files.LN[Len(parsed)]
        /\ \E j \in 1..Len(Reported("IP")) :
               /\ Reported("IP")[j].ip = SubSeq(parsed, 1, n - 1)
               /\ Reported("IP")[j].level = FileIPLevel(rule_files, SubSeq(parsed, 1, n - 1))
        /\ \A t \in 1..(Len(parsed) - n + 1) :
               \E j \in 1..Len(Reported("CP")) :
                   /\ Reported("CP")[j].at = t - 1
                   /\ Reported("CP")[j].symbol = parsed[t + n - 1]
                   /\ Reported("CP")[j].level = FileCPLevel(rule_files, NGramsOf(rule_files, parsed)[t])

\* parse_input reported the EP level of the last n-1 symbols
ReportsEP(parsed) ==
    LET last == SubSeq(parsed, Len(parsed) - rule_files.ngram + 2, Len(parsed))
    IN  \E j \in 1..Len(Reported("EP")) :
            Reported("EP")[j].level = FileEPLevel(rule_files, last)

(***************************************************************************)
(* C23.  parse_input(s) reports, for every string s whose n-grams are in   *)
(* the model, the LN level of len(s), the IP level of the first n-1        *)
(* symbols, the CP level of each of the len(s)-(n-1) transitions and the   *)
(* EP level of the last n-1 symbols, whatever those levels are in          *)
(* 0..max_level (max_level included).                                      *)
(***************************************************************************)
C23_ParseInputReports ==
    ( Parsed # None /\ Scored(rule_files, Parsed[1]) ) =>
        ( ReportsLNIPCP(Parsed[1]) /\ ReportsEP(Parsed[1]) )

(***************************************************************************)
(* createNG.py main(): the trainer's command line and its passes.  main is *)
(* its position ("parse", "encoding", "alphabet", "train", "save", then    *)
(* "done", "returned" after an early return or "crashed" after an          *)
(* exception nothing catches), the arguments it was started with, what     *)
(* the file system will let it do, and the passes it has made; rule_files  *)
(* is the rule directory.                                                  *)
(***************************************************************************)
MinAlphabetSize == 10

\* --alphabet: absent, or any integer (type=int)
AlphabetArgs == { None } \cup { Some(k) : k \in -1..(MinAlphabetSize + 1) }

\* --ngram: an integer; argparse accepts those of choices=range(2,6), of
\* which the model trains the ones in NGrams
NgramChoices == 2..5
NgramArgs == { 1 } \cup NGrams \cup { 6 }

\* bool(x) of an integer
truthy(x) == x # 0

\* parse_command_line: what it returns (parser.error raises SystemExit,
\* which the last except turns into False)
parse_command_line(alphabet_arg, ngram_arg) ==
    IF ngram_arg \notin NgramChoices THEN FALSE
    ELSE IF alphabet_arg # None /\ truthy(alphabet_arg[1]) /\ alphabet_arg[1] < MinAlphabetSize
    THEN FALSE
    ELSE TRUE

\* what a training run over the training file computes for the given n: the
\* tables and the config of one of the trainers, with the default alphabet
\* unless one was learned
TrainingResults(ngram_arg, learn) ==
    { t \in Trainers :
        /\ t.ngram = ngram_arg
        /\ t.version = << "0", ".", "1" >>
        /\ t.alphabet_encoding = "utf-8"
        /\ ~ learn => t.alphabet = alphabet }

\* main() about to parse its command line
TrainerAt(at, alphabet_arg, ngram_arg, encoding_arg, detectable, readable) ==
    [ pc |-> at, alphabet_arg |-> alphabet_arg, ngram_arg |-> ngram_arg,
      encoding_arg |-> encoding_arg, detectable |-> detectable, readable |-> readable,
      learn_alphabet |-> None, passes |-> { } ]

InitTrain ==
    /\ main \in { TrainerAt("parse", alphabet_arg, ngram_arg, encoding_arg, detectable, readable) :
                    alphabet_arg \in AlphabetArgs, ngram_arg \in NgramArgs,
                    encoding_arg \in { None, Some("utf-8") },
                    detectable \in BOOLEAN, readable \in BOOLEAN }
    /\ rule_files = NoFiles
    /\ grammar = NoGrammar
    /\ cracker = [ i \in Crackers |-> NoCracker("absent") ]
    /\ pc = [ i \in Crackers |-> "idle" ]
    /\ out = [ i \in Crackers |-> << >> ]
    /\ pass_arg = [ i \in Crackers |-> None ]
    /\ save_file = None
    /\ file_fresh = FALSE
    /\ second = "absent"
    /\ ahead = 0
    /\ replayed = 0

\* "if parse_command_line(command_line_results) != True: return";
\* runtime_options['learn_alphabet'] is set before the sanity check
TrainParse ==
    /\ main.pc = "parse"
    /\ main' = [ main EXCEPT
                   !.learn_alphabet = IF main.ngram_arg \in NgramChoices
                                      THEN main.alphabet_arg ELSE @,
                   !.pc = IF parse_command_line(main.alphabet_arg, main.ngram_arg)
                          THEN "encoding" ELSE "returned" ]
    /\ UNCHANGED << rule_files, grammar, enumerator >>

\* the autodetection of the encoding when none was given
TrainEncoding ==
    /\ main.pc = "encoding"
    /\ main' = [ main EXCEPT !.pc = IF main.encoding_arg = None /\ ~ main.detectable
                                    THEN "returned" ELSE "alphabet" ]
    /\ UNCHANGED << rule_files, grammar, enumerator >>

\* "if command_line_results['learn_alphabet'] != None": the first pass
\* through the training set; the except block of a failed open names an
\* undefined variable
TrainAlphabet ==
    /\ main.pc = "alphabet"
    /\ main' = IF main.learn_alphabet = None THEN [ main EXCEPT !.pc = "train" ]
               ELSE IF ~ main.readable THEN [ main EXCEPT !.pc = "crashed" ]
               ELSE [ main EXCEPT !.pc = "train", !.passes = @ \cup { "alphabet" } ]
    /\ UNCHANGED << rule_files, grammar, enumerator >>

\* the training pass and the smoothing
TrainPass ==
    /\ main.pc = "train"
    /\ main' = IF ~ main.readable THEN [ main EXCEPT !.pc = "crashed" ]
               ELSE [ main EXCEPT !.pc = "save", !.passes = @ \cup { "training" } ]
    /\ UNCHANGED << rule_files, grammar, enumerator >>

\* save_rules_to_disk in its try block: all the files, or the first few
\* before an IOError
TrainSave ==
    /\ main.pc = "save"
    /\ \E trained \in TrainingResults(main.ngram_arg, "alphabet" \in main.passes),
          written \in 0..Len(SaveOrder) :
           /\ rule_files' = save_rules_to_disk(rule_files, trained, written)
           /\ main' = [ main EXCEPT !.pc = IF written = Len(SaveOrder) THEN "done" ELSE "returned",
                                     !.passes = @ \cup { "save" } ]
    /\ UNCHANGED << grammar, enumerator >>

NextTrain == TrainParse \/ TrainEncoding \/ TrainAlphabet \/ TrainPass \/ TrainSave

SpecTrain == InitTrain /\ [][NextTrain]_vars

(***************************************************************************)
(* C24.  The trainer CLI rejects every requested alphabet size K < 10      *)
(* (K = 0 and negative K included) before any work: parse_command_line()   *)
(* returns False and main() makes no alphabet-learning pass, no training   *)
(* pass and no write.                                                      *)
(***************************************************************************)
C24_SmallAlphabetRejected ==
    ( main.pc # "parse" /\ main.alphabet_arg # None
      /\ main.alphabet_arg[1] < MinAlphabetSize ) =>
        /\ ~ parse_command_line(main.alphabet_arg, main.ngram_arg)
        /\ main.pc = "returned"
        /\ main.passes = { }
        /\ rule_files = NoFiles

(***************************************************************************)
(* The walker on its own: cracker[1].cur_guess is a guess structure built  *)
(* for an IP of the model, a CP count and a target CP-sum, and out[1] is   *)
(* what its next_guess() calls returned, the calls going on past the first *)
(* None.                                                                   *)
(***************************************************************************)
MaxPastEnd == 2

\* the calls that returned None
PastEnd(returned) == Len(SelectSeq(returned, LAMBDA value : value = None))

InitWalker ==
    /\ main = MainAt("off", [ max_guesses |-> -1, debug |-> FALSE, restore |-> FALSE,
                              has_clock |-> TRUE ])
    /\ rule_files \in RuleFiles
    /\ grammar = load_rules(rule_files)
    /\ \E j \in 1..Len(rule_files.IP), k \in 0..MaxLength, S \in 0..MaxTarget :
           cracker = [ i \in Crackers |->
                         IF i = 2 THEN NoCracker("absent")
                         ELSE [ NoCracker("walker") EXCEPT !.cur_guess =
                                  Some(GuessStructure(grammar, rule_files.IP[j].key, k, S,
                                                      "optimizer")) ] ]
    /\ pc = [ i \in Crackers |-> "idle" ]
    /\ out = [ i \in Crackers |-> << >> ]
    /\ pass_arg = [ i \in Crackers |-> None ]
    /\ save_file = None
    /\ file_fresh = FALSE
    /\ second = "absent"
    /\ ahead = 0
    /\ replayed = 0

\* cur_guess.next_guess()
WalkerCall ==
    /\ cracker[1].state = "walker"
    /\ PastEnd(out[1]) < MaxPastEnd
    /\ \E asked \in { AskWalker(grammar, cracker[1]) } :
           /\ cracker' = [ cracker EXCEPT ![1] = asked.c ]
           /\ out' = [ out EXCEPT ![1] = Append(@, asked.guess) ]
    /\ UNCHANGED << rule_files, grammar, pc, pass_arg, save_file, file_fresh, second,
                    ahead, replayed, main >>

NextWalker == WalkerCall

SpecWalker == InitWalker /\ [][NextWalker]_vars

\* the strings the contract names for (p, k, S), read from the rule files:
\* p followed by k symbols, every transition listed, the CP levels summing to S
WalkerContract(files, p, k, S) ==
    { guess \in SeqElems(Keys(Len(p) + k)) :
        /\ SubSeq(guess, 1, Len(p)) = p
        /\ \A j \in 1..k : FileHasCP(files, NGramsOf(files, guess)[j])
        /\ SumOver([ j \in 1..k |-> FileCPLevel(files, NGramsOf(files, guess)[j]) ], 1..k) = S }

\* the guesses among the values the walker returned
Walked == SelectSeq(out[1], LAMBDA value : value # None)

(***************************************************************************)
(* C25.  Walker contract: a guess structure built for (IP p, CP count k,   *)
(* target CP-sum S) returns, over repeated next_guess() calls, exactly the *)
(* strings p x1 ... xk in which every x_i is a listed next symbol of the   *)
(* context formed by the preceding n-1 symbols and the k CP levels sum to  *)
(* exactly S, each such string once, and returns none after the last one.  *)
(***************************************************************************)
C25_WalkerContract ==
    cracker[1].state = "walker" =>
        LET gs == cracker[1].cur_guess[1]
            contract == WalkerContract(rule_files, gs.ip, gs.cp_length, gs.target_level)
        IN  /\ \A j \in 1..Len(Walked) : Walked[j][1] \in contract
            /\ \A j, m \in 1..Len(Walked) : j # m => Walked[j] # Walked[m]
            /\ \A j \in 1..Len(out[1]) :
                   out[1][j] = None <=> j > Cardinality(contract)

\* a walker returned three guesses and then none
C25_Witness ==
    /\ cracker[1].state = "walker"
    /\ Len(Walked) >= 3
    /\ PastEnd(out[1]) = MaxPastEnd

\* the second enumerator runs over another EP table and has answered every
\* call the first one has
OtherEPInStep == second \in EPNames /\ InStep

(***************************************************************************)
(* C26.  EP does not influence enumeration: two enumerators over models    *)
(* that are identical except for the contents of the EP table return       *)
(* identical sequences of (guess, T) pairs for every number of             *)
(* next_guess() calls.                                                     *)
(***************************************************************************)
C26_EPWithoutInfluence ==
    OtherEPInStep =>
        /\ out[2] = out[1]
        /\ cracker[2] = cracker[1]

\* enumerators over two EP tables have both answered four calls of one
\* pass, with guesses at two target levels
C26_Witness ==
    /\ OtherEPInStep
    /\ grammar_of(2).ep # grammar.ep
    /\ Len(Pairs(2)) >= 4
    /\ Pairs(2)[1][2] < Pairs(2)[Len(Pairs(2))][2]

(***************************************************************************)
(* C27.  A guess structure is created and walked only for a non-negative   *)
(* target CP-sum: at every GuessStructure construction in next_guess(),    *)
(* _increase_len_for_target(), _increase_ip_for_target() and               *)
(* load_session(), S = target_level - cur_len level - cur_ip level >= 0,   *)
(* for every model (models whose lowest non-empty IP level is greater than *)
(* 0 included).  The structure an enumerator holds is the last one it      *)
(* constructed, with the S it was given.                                   *)
(***************************************************************************)
C27_TargetSumNotNegative ==
    \A i \in Crackers :
        ( cracker[i].state = "live" /\ cracker[i].cur_guess # None ) =>
            cracker[i].cur_guess[1].target_level >= 0

\* the pairs <<LN pointer, IP pointer>> of the grammar a cracker runs over
\* whose levels fit the target level T, and the order they are gone through in
PairsFor(i, T) ==
    { pair \in Entries(grammar_of(i).ln) \X Entries(grammar_of(i).ip) :
        pair[1][1] + pair[2][1] <= T }
PairLess(p, q) == LexLess(p[1], q[1]) \/ ( p[1] = q[1] /\ LexLess(p[2], q[2]) )
PairOf(c) == << c.cur_len, c.cur_ip >>

\* the walker c holds has returned none
WalkerExhausted(c) ==
    /\ c.cur_guess # None
    /\ ~ c.cur_guess[1].first_guess
    /\ c.cur_guess[1].parse_tree = None

\* no pair that fits T comes after the one c is at
NoPairLeft(i, c) == ~ \E pair \in PairsFor(i, c.target_level) : PairLess(PairOf(c), pair)

\* d is at the first of the pairs that fit its target level
AtFirstPair(i, d) ==
    /\ PairOf(d) \in PairsFor(i, d.target_level)
    /\ \A pair \in PairsFor(i, d.target_level) : pair = PairOf(d) \/ PairLess(PairOf(d), pair)

\* the walker an enumerator holds is the one of the pair it is at: p the IP
\* entry, k the LN entry, S = T - a - b
WalkerOfPair ==
    \A i \in Crackers :
        ( cracker[i].state = "live" /\ cracker[i].cur_guess # None ) =>
            LET c == cracker[i]
                gs == c.cur_guess[1]
            IN  /\ gs.ip = grammar_of(i).ip[c.cur_ip[1]][c.cur_ip[2] + 1]
                /\ gs.cp_length = grammar_of(i).ln[c.cur_len[1]][c.cur_len[2] + 1]
                /\ gs.target_level = c.target_level - c.cur_len[1] - c.cur_ip[1]

\* an enumerator that returned none before it ever set its pointers was
\* asked for a level no pair fits
QuickReturn ==
    \A i \in Crackers :
        ( cracker[i].state = "live" /\ cracker[i].cur_len = None /\ out[i] # << >> ) =>
            pass_arg[i] # None /\ PairsFor(i, pass_arg[i][1]) = { }

\* a step of an enumerator goes through the pairs of T one by one: a pass
\* starts at the first pair; a walker is left only when it returned none,
\* and then for a later pair with no fitting pair skipped; T is raised, or
\* the pass ended with none, only when no fitting pair is left, and the
\* pairs of T + 1 are started at the first one
CoverageStep ==
    \A i \in Crackers :
        ( cracker[i].state = "live" /\ cracker'[i].state = "live" ) =>
            LET c == cracker[i]
                d == cracker'[i]
            IN  IF c.cur_guess = None
                THEN d.cur_guess # None => AtFirstPair(i, d)
                ELSE IF d.cur_guess = None
                THEN WalkerExhausted(c) /\ NoPairLeft(i, c) /\ ~ c.increase_target_level
                ELSE IF d.target_level # c.target_level
                THEN /\ WalkerExhausted(c) /\ NoPairLeft(i, c)
                     /\ d.target_level = c.target_level + 1
                     /\ AtFirstPair(i, d)
                ELSE IF PairOf(d) # PairOf(c)
                THEN /\ WalkerExhausted(c)
                     /\ PairLess(PairOf(c), PairOf(d))
                     /\ ~ \E pair \in PairsFor(i, c.target_level) :
                              PairLess(PairOf(c), pair) /\ PairLess(pair, PairOf(d))
                ELSE TRUE

(***************************************************************************)
(* C28.  Coverage per target: for every T reached, before T is incremented *)
(* (auto mode) or none is returned (fixed-level mode), the walker for      *)
(* every pair (LN entry at level a, IP entry at level b) with a + b <= T   *)
(* has been run to exhaustion exactly once, with k = that LN entry, p =    *)
(* that IP entry and S = T - a - b.  Stated step by step: the walker held  *)
(* is the one of the pair the pointers are at, a pass starts at the first  *)
(* fitting pair or returns none at once when there is none, a walker is    *)
(* replaced only after it returned none and by the one of a later pair     *)
(* with no fitting pair in between, and T is raised or the pass ended only *)
(* when no fitting pair is left.                                           *)
(***************************************************************************)
C28_CoveragePerTarget == [] ( WalkerOfPair /\ QuickReturn ) /\ [][CoverageStep]_vars

\* an auto-increment pass has gone through the pairs of one target level,
\* two LN entries among them, and has gone on to the next target level
C28_Witness ==
    \E i \in Crackers :
        /\ Auto(i)
        /\ \E j \in 1..(Len(Pairs(i)) - 2) :
               /\ Pairs(i)[j][2] = Pairs(i)[j + 1][2]
               /\ Len(Pairs(i)[j][1]) # Len(Pairs(i)[j + 1][1])
               /\ Pairs(i)[j + 1][2] < Pairs(i)[j + 2][2]

\* save_session was the last call made
JustSaved == file_fresh /\ cracker[2].state = "absent"

(***************************************************************************)
(* C29.  save_session() succeeds and writes a complete session record      *)
(* (version, rule name, UUID, T, auto-increment flag, IP pointer, LN       *)
(* pointer, parse tree, first-guess flag) in every enumerator state        *)
(* reachable through the public operations, the state before the first     *)
(* next_guess() call and the one after a fixed-level enumeration returned  *)
(* none included.                                                          *)
(***************************************************************************)
C29_SaveAlwaysSucceeds ==
    JustSaved =>
        /\ Len(save_file) = 9
        /\ save_file[8] = cracker[1].cur_guess[1].parse_tree
        /\ save_file[9] = cracker[1].cur_guess[1].first_guess

\* a training run has written the tables of the rule set, all or some of
\* them, since the session was saved
TablesRewritten ==
    /\ main.run = 2
    /\ main.trained > 0
    /\ Len(save_file) = 9

(***************************************************************************)
(* C30.  The UUID check detects retraining: if the model tables under      *)
(* Rules/<NAME>/ were rewritten by any training run (completed, or failed  *)
(* or interrupted partway through save_rules_to_disk) after a session was  *)
(* saved, then restoring that session is rejected.                         *)
(***************************************************************************)
C30_RetrainingDetected ==
    ( TablesRewritten /\ main.pc # "init" ) =>
        ( main.pc = "failed" /\ cracker[1].state = "failed" )

(***************************************************************************)
(* A client that goes through fixed levels more than once: when a call     *)
(* starts a pass, main.before keeps the level argument and the returned    *)
(* values of the pass that ended before it.                                *)
(***************************************************************************)
LastPass == main.before

ClientCallAgain(level) ==
    /\ next_guess(1, level)
    /\ main' = [ main EXCEPT !.before =
                    IF self(1).cur_guess = None /\ out[1] # << >>
                    THEN << pass_arg[1], out[1] >> ELSE @ ]

NextAgain ==
    \/ Construct(1)
    \/ \E level \in LevelArgs : ClientCallAgain(level)
    \/ ClientLoop(1)

SpecAgain == Init /\ [][NextAgain]_vars

\* the pass in progress was started with the level the pass before it had
SameLevelAgain ==
    /\ LastPass # << >>
    /\ pass_arg[1] # None
    /\ out[1] # << >>
    /\ LastPass[1] = pass_arg[1]

\* the last call of the pass returned None
PassEnded(i) == pc[i] = "idle" /\ out[i] # << >> /\ out[i][Len(out[i])] = None

(***************************************************************************)
(* C31.  Reset after exhaustion in fixed-level mode: after                 *)
(* next_guess(level=L) has returned None, cur_guess is None, and a further *)
(* series of next_guess(level=L) calls returns exactly the same sequence   *)
(* of guesses as the first series did, again ending with None; every pair  *)
(* returned in this mode carries T = L.                                    *)
(***************************************************************************)
C31_ResetAfterExhaustion ==
    /\ PassEnded(1) => cracker[1].cur_guess = None
    /\ SameLevelAgain =>
           /\ Len(out[1]) <= Len(LastPass[2])
           /\ out[1] = SubSeq(LastPass[2], 1, Len(out[1]))
           /\ PassEnded(1) => out[1] = LastPass[2]
    /\ pass_arg[1] # None =>
           \A j \in 1..Len(out[1]) : out[1][j] # None => out[1][j][2] = pass_arg[1][1]

C31_Witness ==
    /\ SameLevelAgain
    /\ PassEnded(1)
    /\ Len(out[1]) >= 3
    /\ out[1] = LastPass[2]

\* the levels at which _increase_len_for_target evaluates len(ln[level]),
\* scanning from (level, index)
RECURSIVE len_lookups(_, _, _, _)
len_lookups(loaded, c, level, index) ==
    IF ~ (level <= loaded.max_level) THEN { }
    ELSE { level } \cup
         ( IF level \notin DOMAIN loaded.ln THEN { }
           ELSE IF Len(loaded.ln[level]) > index THEN { }
           ELSE IF level + 1 > loaded.max_level THEN { }
           ELSE IF level + 1 > c.target_level THEN { }
           ELSE len_lookups(loaded, c, level + 1, 0) )

\* the levels at which _increase_ip_for_target evaluates len(ip[level])
RECURSIVE ip_lookups(_, _, _, _)
ip_lookups(loaded, working_target, level, index) ==
    IF ~ (level <= loaded.max_level) THEN { }
    ELSE { level } \cup
         ( IF level \notin DOMAIN loaded.ip THEN { }
           ELSE IF Len(loaded.ip[level]) > index THEN { }
           ELSE IF level + 1 > loaded.max_level THEN { }
           ELSE IF level + 1 > working_target THEN { }
           ELSE ip_lookups(loaded, working_target, level + 1, 0) )

\* the levels one iteration of "while guess == None" looks up
AdvanceLookups(loaded, c) ==
    ip_lookups(loaded, c.target_level - c.cur_len[1], c.cur_ip[1], c.cur_ip[2] + 1)
        \cup len_lookups(loaded, c, c.cur_len[1], c.cur_len[2] + 1)

\* pointer [level, index] addresses an entry of a bucket 0..max_level
ValidPointer(table, pointer, max_level) ==
    /\ Len(pointer) = 2
    /\ pointer[1] \in 0..max_level
    /\ pointer[1] \in DOMAIN table
    /\ pointer[2] >= 0
    /\ pointer[2] < Len(table[pointer[1]])

HasPointers(i) == cracker[i].state = "live" /\ cracker[i].cur_len # None

(***************************************************************************)
(* C32.  Pointer validity: in every state reachable by next_guess() calls  *)
(* and by a successful load_session() on a matching model, cur_len and     *)
(* cur_ip are [level, index] with 0 <= level <= max_level and index less   *)
(* than the length of the addressed bucket, and every bucket lookup        *)
(* ln[level] / ip[level] made while advancing uses a level in 0..max_level.*)
(***************************************************************************)
C32_PointersValid ==
    \A i \in Crackers :
        HasPointers(i) =>
            /\ ValidPointer(grammar.ln, cracker[i].cur_len, cracker[i].max_level)
            /\ ValidPointer(grammar.ip, cracker[i].cur_ip, cracker[i].max_level)
            /\ AdvanceLookups(grammar, cracker[i]) \subseteq 0..cracker[i].max_level
            /\ AdvanceLookups(grammar, cracker[i]) \subseteq
                   ( DOMAIN grammar.ln \cap DOMAIN grammar.ip )

\* a restored enumerator that has advanced both pointers and is about to
\* advance again
C32_Witness ==
    /\ second = "restored"
    /\ HasPointers(2)
    /\ pc[2] = "loop"
    /\ cracker[2].cur_ip # << cracker[2].start_ip, 0 >>
    /\ cracker[2].cur_len # << cracker[2].start_length, 0 >>
    /\ Cardinality(AdvanceLookups(grammar, cracker[2])) >= 2

\* the last call of next_guess on cracker i returned a guess
ReturnedGuess(i) ==
    /\ cracker[i].state = "live"
    /\ pc[i] = "idle"
    /\ out[i] # << >>
    /\ out[i][Len(out[i])] # None

\* cracker 2 has come out of a successful load_session and was not called yet
JustRestored(i) ==
    /\ i = 2
    /\ second = "restored"
    /\ cracker[i].state = "live"
    /\ replayed = 0
    /\ ahead = 0

\* the arguments the guess structure of cracker i was constructed with are
\* those its T and its pointers give now
BuiltFromPointers(i) ==
    LET c  == cracker[i]
        gs == c.cur_guess[1]
    IN  /\ c.cur_guess # None
        /\ gs.ip = grammar.ip[c.cur_ip[1]][c.cur_ip[2] + 1]
        /\ gs.cp_length = grammar.ln[c.cur_len[1]][c.cur_len[2] + 1]
        /\ gs.target_level = c.target_level - c.cur_len[1] - c.cur_ip[1]

(***************************************************************************)
(* C33.  Walker/pointer consistency: at every return from next_guess()     *)
(* with a guess, and after every successful load_session(), the current    *)
(* guess structure was constructed with ip = ip[cur_ip level][cur_ip       *)
(* index], cp_length = ln[cur_len level][cur_len index] and target_level = *)
(* T - cur_len level - cur_ip level for the current T, cur_len and cur_ip. *)
(***************************************************************************)
C33_WalkerMatchesPointers ==
    \A i \in Crackers :
        ( ReturnedGuess(i) \/ JustRestored(i) ) => BuiltFromPointers(i)

\* a session saved after both pointers had moved, restored, and the
\* original returning a guess
C33_Witness ==
    /\ JustRestored(2)
    /\ ReturnedGuess(1)
    /\ cracker[2].cur_ip # << cracker[2].start_ip, 0 >>
    /\ cracker[2].cur_len # << cracker[2].start_length, 0 >>
    /\ cracker[2].target_level > cracker[2].start_length + cracker[2].start_ip

(***************************************************************************)
(* C34.  Same walker configuration everywhere: every guess structure the   *)
(* enumerator creates - at start, on IP advance, on LN advance, on T       *)
(* increment and on session restore - is given the enumerator's optimizer, *)
(* so a restored enumerator's walker is configured exactly like the walker *)
(* that was saved.                                                         *)
(***************************************************************************)
C34_SameWalkerConfiguration ==
    \A i \in Crackers :
        ( cracker[i].state = "live" /\ cracker[i].cur_guess # None ) =>
            cracker[i].cur_guess[1].optimizer = cracker[i].optimizer

(***************************************************************************)
(* The guess loop with the body in two steps, so that the save and the     *)
(* print of one iteration are told apart (main.pc = "print" between them), *)
(* and with the period of the saves scaled down from SaveEvery to          *)
(* ShortPeriod guesses, which a model of a few strings can reach.          *)
(***************************************************************************)
ShortPeriod == 2

\* the slip of putting the periodic save outside the test of the debug option
MainCount_saves_when_debugging(period) ==
    /\ main.pc = "body"
    /\ LET count == main.num_guesses + 1
           saves == count % period = 0
       IN  /\ main' = [ main EXCEPT !.num_guesses = count,
                                     !.saves = IF saves THEN @ + 1 ELSE @,
                                     !.pc = "print" ]
           /\ save_file' = IF saves THEN save_session(cracker[1]) ELSE save_file
    /\ UNCHANGED << rule_files, grammar, cracker, pc, out, pass_arg, file_fresh,
                    second, ahead, replayed >>

\* num_guesses += 1 and, when not debugging, "if num_guesses % period == 0:
\* cracker.save_session()"
MainCount(period) ==
    /\ main.pc = "body"
    /\ LET count == main.num_guesses + 1
           saves == ~ main.debug /\ count % period = 0
       IN  /\ main' = [ main EXCEPT !.num_guesses = count,
                                     !.saves = IF saves THEN @ + 1 ELSE @,
                                     !.pc = "print" ]
           /\ save_file' = IF saves THEN save_session(cracker[1]) ELSE save_file
    /\ UNCHANGED << rule_files, grammar, cracker, pc, out, pass_arg, file_fresh,
                    second, ahead, replayed >>

\* print(guess) when not debugging, then the max_guesses test
MainPrint ==
    /\ main.pc = "print"
    /\ LET guess == out[1][Len(out[1])][1]
           stops == main.max_guesses > 0 /\ main.num_guesses >= main.max_guesses
       IN  main' = [ main EXCEPT !.stdout = IF main.debug THEN @ ELSE Append(@, guess),
                                 !.pc = IF stops THEN "done" ELSE "call" ]
    /\ UNCHANGED << rule_files, grammar, cracker, pc, out, pass_arg, save_file,
                    file_fresh, second, ahead, replayed >>

\* KeyboardInterrupt or BrokenPipeError between the save and the print
MainInterruptPrint ==
    /\ main.pc = "print"
    /\ main' = [ main EXCEPT !.interrupted = TRUE,
                              !.saves = @ + 1,
                              !.pc = IF cracker[1].cur_guess = None THEN "crashed" ELSE "done" ]
    /\ save_file' = save_session(cracker[1])
    /\ UNCHANGED << rule_files, grammar, cracker, pc, out, pass_arg, file_fresh,
                    second, ahead, replayed >>

NextPeriod ==
    \/ MainConstruct
    \/ MainStart
    \/ MainCall
    \/ MainLoop
    \/ MainSpin
    \/ MainCount(ShortPeriod)
    \/ MainPrint
    \/ MainInterrupt
    \/ MainInterruptPrint

SpecPeriod == InitMain /\ [][NextPeriod]_vars

\* the step counts a guess whose number is a positive multiple of the period
\* in a run that is not debugging
PeriodicStep ==
    /\ main.pc = "body" /\ main'.pc = "print"
    /\ ~ main.debug
    /\ main'.num_guesses > 0
    /\ main'.num_guesses % ShortPeriod = 0

\* the step is the catch of KeyboardInterrupt or BrokenPipeError
InterruptStep == ~ main.interrupted /\ main'.interrupted

\* the step ends the loop because max_guesses was reached
LimitStep == main.pc = "print" /\ main'.pc = "done" /\ ~ main'.interrupted

\* the step calls save_session on the enumerator as it is
Writes ==
    /\ main'.saves = main.saves + 1
    /\ save_file' = save_session(cracker[1])

WritesNothing ==
    /\ main'.saves = main.saves
    /\ save_file' = save_file

(***************************************************************************)
(* C35.  When the session is written: in the enumNG guess loop the session *)
(* file is written exactly (a) in non-debug mode when the count of         *)
(* generated guesses reaches a positive multiple of the save period, after *)
(* that guess was generated and before it is printed, and (b) when a       *)
(* KeyboardInterrupt or BrokenPipeError is caught; ending the run because  *)
(* max_guesses was reached writes no session.                              *)
(***************************************************************************)
C35_WhenSessionWritten ==
    [][ /\ ( PeriodicStep \/ InterruptStep ) => Writes
        /\ ~ ( PeriodicStep \/ InterruptStep ) => WritesNothing
        /\ PeriodicStep =>
               /\ ReturnedGuess(1)
               /\ Len(save_file') = 9
               /\ main'.stdout = main.stdout
               /\ Len(main'.stdout) = main'.num_guesses - 1
        /\ LimitStep => WritesNothing
      ]_main

\* a run with a guess limit that saved at a multiple of the period, printed
\* the guess after the save, and ended at the limit with that one session
C35_Witness ==
    /\ main.pc = "done"
    /\ ~ main.interrupted
    /\ main.max_guesses > ShortPeriod
    /\ main.num_guesses = main.max_guesses
    /\ main.saves >= 1
    /\ Len(main.stdout) = main.num_guesses
    /\ Len(save_file) = 9

====
